---------------------------- MODULE Spec2Model ----------------------------
(***************************************************************************)
(* Verification model of LFS-Ayats: the InSim framer and packet validator  *)
(* (src/src/insim_client.py), the InSim decoder, and the session engine of *)
(* src/main.py with the personal-best store of src/src/persistence.py.     *)
(*                                                                         *)
(* Encodings used throughout:                                              *)
(*   - a byte is an integer 0..255;                                        *)
(*   - a byte of the receive buffer is a record [b |-> byte, p |-> index]  *)
(*     where p is the 1-based position of the byte in the TCP stream since *)
(*     connect (history only: no operator of the program reads p);         *)
(*   - a Python string is the sequence of its character codes;             *)
(*   - Optional[T] is None == <<>> or Some(x) == <<x>>.                    *)
(***************************************************************************)
EXTENDS Integers, Sequences, FiniteSets, TLC

None == <<>>
Some(x) == <<x>>
IsSome(o) == o # <<>>
Get(o) == o[1]

Min(a, b) == IF a <= b THEN a ELSE b
Max(a, b) == IF a >= b THEN a ELSE b

Take(s, n) == SubSeq(s, 1, Min(n, Len(s)))
Drop(s, n) == SubSeq(s, n + 1, Len(s))

\* bytes(...) of a slice of the receive buffer: the values without positions
Bytes(tagged) == [i \in 1..Len(tagged) |-> tagged[i].b]
\* the bytes of a read, given the positions they have in the stream
Tag(data, base) == [i \in 1..Len(data) |-> [b |-> data[i], p |-> base + i]]

---------------------------------------------------------------------------
(* InSim protocol constants, insim_client.py:20-44 *)

ISP_ISI == 1
ISP_VER == 2
ISP_STA == 5
ISP_MST == 11
ISP_NPL == 21
ISP_LAP == 28
ISP_SPX == 29
ISP_MCI == 38
ISP_BTN == 45
ISP_BFN == 46
ISP_BTC == 47

_KNOWN_PACKET_TYPES ==
    {ISP_ISI, ISP_VER, ISP_STA, ISP_MST, ISP_NPL, ISP_LAP, ISP_SPX, ISP_MCI,
     ISP_BTN, ISP_BFN, ISP_BTC}

ISS_MULTI == 1

---------------------------------------------------------------------------
(* PacketValidator, insim_client.py:77-217 *)

\* A mutant of _size_bounds: the lower bound of IS_BTC is below the schema's.
_size_bounds_loose(packet_type) ==
    CASE packet_type = ISP_VER -> Some(<<20, 20>>)
      [] packet_type = ISP_STA -> Some(<<28, 28>>)
      [] packet_type = ISP_NPL -> Some(<<44, 120>>)
      [] packet_type = ISP_LAP -> Some(<<42, 96>>)
      [] packet_type = ISP_SPX -> Some(<<42, 96>>)
      [] packet_type = ISP_BTC -> Some(<<6, 12>>)
      [] OTHER -> None

\* PacketValidator._size_bounds: <<min, max>> (inclusive), or None
_size_bounds(packet_type) ==
    CASE packet_type = ISP_VER -> Some(<<20, 20>>)
      [] packet_type = ISP_STA -> Some(<<28, 28>>)
      [] packet_type = ISP_NPL -> Some(<<44, 120>>)
      [] packet_type = ISP_LAP -> Some(<<42, 96>>)
      [] packet_type = ISP_SPX -> Some(<<42, 96>>)
      [] packet_type = ISP_BTC -> Some(<<8, 12>>)
      [] OTHER -> None

\* PacketValidator._schemas: [min_size, exact_size, max_size, field_end], where
\* field_end is the set of offset+length over the schema's fields; or None
_schemas(packet_type) ==
    CASE packet_type = ISP_VER ->
           Some([min_size |-> 20, exact_size |-> Some(20), max_size |-> Some(20),
                 field_end |-> {0 + 4, 4 + 16}])
      [] packet_type = ISP_STA ->
           Some([min_size |-> 28, exact_size |-> Some(28), max_size |-> Some(28),
                 field_end |-> {0 + 4, 16 + 2}])
      [] packet_type = ISP_NPL ->
           Some([min_size |-> 44, exact_size |-> None, max_size |-> Some(120),
                 field_end |-> {0 + 4, 3 + 1, 40 + 4}])
      [] packet_type = ISP_LAP ->
           Some([min_size |-> 42, exact_size |-> None, max_size |-> Some(96),
                 field_end |-> {0 + 4, 4 + 8, 12 + 2, 14 + 1, 15 + 1, 16 + 1,
                                17 + 1, 18 + 24}])
      [] packet_type = ISP_SPX ->
           Some([min_size |-> 42, exact_size |-> None, max_size |-> Some(96),
                 field_end |-> {0 + 4, 4 + 8, 12 + 2, 14 + 1, 15 + 1, 16 + 1,
                                17 + 1, 18 + 24}])
      [] packet_type = ISP_BTC ->
           Some([min_size |-> 8, exact_size |-> None, max_size |-> Some(12),
                 field_end |-> {0 + 4, 6 + 2}])
      [] packet_type = ISP_MCI ->
           Some([min_size |-> 4, exact_size |-> None, max_size |-> None,
                 field_end |-> {0 + 4}])
      [] OTHER -> None

\* PacketValidator.validate_header: TRUE for (True, None), FALSE for (False, reason)
validate_header(size, packet_type) ==
    IF size < 4 THEN FALSE
    ELSE LET bounds == _size_bounds(packet_type) IN
         IF IsSome(bounds)
         THEN LET min_size == Get(bounds)[1]
                  max_size == Get(bounds)[2]
              IN  IF size < min_size THEN FALSE
                  ELSE IF size > max_size THEN FALSE
                  ELSE TRUE
         ELSE TRUE

\* A mutant of validate: the payload length is not compared with the size byte.
validate_no_length(packet) ==
    /\ Len(packet) >= 2
    /\ validate_header(packet[1], packet[2])

\* PacketValidator.validate over the plain bytes of a packet
validate(packet) ==
    IF Len(packet) < 2 THEN FALSE
    ELSE LET size == packet[1]
             packet_type == packet[2]
         IN
         IF ~validate_header(size, packet_type) THEN FALSE
         ELSE IF Len(packet) < size THEN FALSE
         ELSE LET schema == _schemas(packet_type) IN
              IF ~IsSome(schema) THEN TRUE
              ELSE LET s == Get(schema) IN
                   IF size < s.min_size THEN FALSE
                   ELSE IF IsSome(s.exact_size) /\ size # Get(s.exact_size) THEN FALSE
                   ELSE IF IsSome(s.max_size) /\ size > Get(s.max_size) THEN FALSE
                   ELSE \A end \in s.field_end : ~(end > size)

---------------------------------------------------------------------------
(* InSim framer, insim_client.py:586-710.  The operators take the buffer   *)
(* and return the buffer they leave, with the warnings they log.           *)

W(kind, n) == [kind |-> kind, n |-> n]

\* InSimClient._scan_for_valid_packet_start, the loop from `offset` on:
\* the 0-based offset found, or -1 for None
RECURSIVE scan_from(_, _, _, _)
scan_from(buf, limit, require_complete, offset) ==
    IF offset >= Len(buf) THEN -1
    ELSE LET packet_size == buf[offset + 1].b
             remaining == Len(buf) - offset
         IN
         IF packet_size = 0 THEN scan_from(buf, limit, require_complete, offset + 1)
         ELSE IF remaining < 2 THEN -1
         ELSE IF buf[offset + 2].b \notin _KNOWN_PACKET_TYPES
              THEN scan_from(buf, limit, require_complete, offset + 1)
         ELSE IF packet_size < 4
              THEN scan_from(buf, limit, require_complete, offset + 1)
         ELSE IF require_complete /\ packet_size > remaining
              THEN scan_from(buf, limit, require_complete, offset + 1)
         ELSE IF ~require_complete /\ packet_size > limit
              THEN scan_from(buf, limit, require_complete, offset + 1)
         ELSE offset

_scan_for_valid_packet_start(buf, limit, require_complete) ==
    scan_from(buf, limit, require_complete, 0)

\* the number of bytes dropped after a failed header validation
header_discard(buf) == IF Len(buf) >= 2 THEN 2 ELSE 1

\* InSimClient._discard_until_valid_header:
\* [buffer, ok (the return value), log (the warnings, in order)]
RECURSIVE _discard_until_valid_header(_, _, _)
_discard_until_valid_header(buf, limit, require_complete) ==
    IF buf = <<>> THEN [buffer |-> <<>>, ok |-> FALSE, log |-> <<>>]
    ELSE LET offset == _scan_for_valid_packet_start(buf, limit, require_complete) IN
         IF offset = -1
         THEN [buffer |-> <<>>, ok |-> FALSE, log |-> <<W("cleared", Len(buf))>>]
         ELSE IF offset # 0
         THEN LET r == _discard_until_valid_header(Drop(buf, offset), limit,
                                                   require_complete)
              IN  [r EXCEPT !.log = <<W("offset", offset)>> \o r.log]
         ELSE IF Len(buf) < 2
         THEN [buffer |-> buf, ok |-> FALSE, log |-> <<>>]
         ELSE IF ~validate_header(buf[1].b, buf[2].b)
         THEN LET discard == header_discard(buf)
                  r == _discard_until_valid_header(Drop(buf, discard), limit,
                                                   require_complete)
              IN  [r EXCEPT !.log = <<W("header", discard)>> \o r.log]
         ELSE IF require_complete /\ buf[1].b > Len(buf)
         THEN [buffer |-> buf, ok |-> FALSE, log |-> <<>>]
         ELSE [buffer |-> buf, ok |-> TRUE, log |-> <<>>]

\* InSimClient._append_to_buffer up to the resynchronisation (lines 587-611):
\* [buffer, over (the limit was exceeded), log]
append_trim(buf, data, limit) ==
    IF limit <= 0 THEN [buffer |-> <<>>, over |-> FALSE, log |-> <<>>]
    ELSE IF data = <<>> THEN [buffer |-> buf, over |-> FALSE, log |-> <<>>]
    ELSE LET total_len == Len(buf) + Len(data) IN
         IF total_len <= limit
         THEN [buffer |-> buf \o data, over |-> FALSE, log |-> <<>>]
         ELSE LET discard == total_len - limit IN
              [over |-> TRUE,
               log |-> <<W("limit", discard)>>,
               buffer |->
                 IF discard >= Len(buf)
                 THEN LET discard_from_data == discard - Len(buf) IN
                      IF discard_from_data >= Len(data)
                      THEN SubSeq(data, Len(data) - limit + 1, Len(data))
                      ELSE Drop(data, discard_from_data)
                 ELSE Drop(buf, discard) \o data]

\* A mutant of _append_to_buffer: the limit is not enforced.
_append_to_buffer_unbounded(buf, data, limit) ==
    [buffer |-> buf \o data, log |-> <<>>]

\* A mutant of _append_to_buffer: the oldest bytes are dropped but the rest is
\* not resynchronised.
_append_to_buffer_no_resync(buf, data, limit) ==
    LET t == append_trim(buf, data, limit) IN [buffer |-> t.buffer, log |-> t.log]

\* InSimClient._append_to_buffer: [buffer, log]
_append_to_buffer(buf, data, limit) ==
    LET t == append_trim(buf, data, limit) IN
    IF t.over /\ t.buffer # <<>>
    THEN LET r == _discard_until_valid_header(t.buffer, limit, TRUE) IN
         [buffer |-> r.buffer, log |-> t.log \o r.log]
    ELSE [buffer |-> t.buffer, log |-> t.log]

\* A mutant of frame_packets: the packets of one call are handed on last first.
RECURSIVE frame_packets_reversed(_, _)
frame_packets_reversed(buf, limit) ==
    IF buf = <<>> THEN [buffer |-> <<>>, packets |-> <<>>, log |-> <<>>]
    ELSE LET d == _discard_until_valid_header(buf, limit, FALSE) IN
         IF ~d.ok \/ Len(d.buffer) < 2 \/ d.buffer[1].b > Len(d.buffer)
         THEN [buffer |-> d.buffer, packets |-> <<>>, log |-> d.log]
         ELSE LET packet == SubSeq(d.buffer, 1, d.buffer[1].b)
                  r == frame_packets_reversed(Drop(d.buffer, d.buffer[1].b), limit)
              IN  [buffer |-> r.buffer,
                   packets |-> r.packets \o <<packet>>,
                   log |-> d.log \o r.log]

\* InSimClient._process_buffer without the calls of _handle_packet:
\* [buffer, packets (the slices handed to _handle_packet, in order), log]
RECURSIVE frame_packets(_, _)
frame_packets(buf, limit) ==
    IF buf = <<>> THEN [buffer |-> <<>>, packets |-> <<>>, log |-> <<>>]
    ELSE LET d == _discard_until_valid_header(buf, limit, FALSE) IN
         IF ~d.ok THEN [buffer |-> d.buffer, packets |-> <<>>, log |-> d.log]
         ELSE IF Len(d.buffer) < 2
         THEN [buffer |-> d.buffer, packets |-> <<>>, log |-> d.log]
         ELSE LET packet_size == d.buffer[1].b IN
              IF packet_size = 0
              THEN [buffer |-> <<>>, packets |-> <<>>,
                    log |-> d.log \o <<W("zero", Len(d.buffer))>>]
              ELSE IF packet_size > Len(d.buffer)
              THEN [buffer |-> d.buffer, packets |-> <<>>, log |-> d.log]
              ELSE LET packet == SubSeq(d.buffer, 1, packet_size)
                       r == frame_packets(Drop(d.buffer, packet_size), limit)
                   IN  [buffer |-> r.buffer,
                        packets |-> <<packet>> \o r.packets,
                        log |-> d.log \o r.log]

---------------------------------------------------------------------------
(* InSim decoder, insim_client.py:712-1074.  `st` is the decoder state of  *)
(* the client: [plid_to_car, current_track, current_car, view_plid,        *)
(* last_flags2]; a packet is the sequence of its bytes.                    *)

\* struct.unpack_from("<H" / "<I", packet, offset): little endian, unsigned.
\* TLC's integers are 32-bit: the packets of the model keep the top byte of an
\* unsigned 32-bit field below 128.
U16(packet, offset) == packet[offset + 1] + 256 * packet[offset + 2]
U32(packet, offset) ==
    packet[offset + 1] + 256 * packet[offset + 2] + 65536 * packet[offset + 3]
    + 16777216 * packet[offset + 4]
\* struct formats "h" and "i": two's complement
S16(packet, offset) ==
    LET u == U16(packet, offset) IN IF u >= 32768 THEN u - 65536 ELSE u
S32(packet, offset) ==
    packet[offset + 1] + 256 * packet[offset + 2] + 65536 * packet[offset + 3]
    + 16777216 * (IF packet[offset + 4] >= 128 THEN packet[offset + 4] - 256
                  ELSE packet[offset + 4])

\* packet[a:b] for 0 <= a <= b (Python slicing never raises)
Slice(packet, a, b) == SubSeq(packet, a + 1, Min(b, Len(packet)))

\* bytes.split(b"\x00", 1)[0]
RECURSIVE UntilNul(_)
UntilNul(bs) ==
    IF bs = <<>> \/ Head(bs) = 0 THEN <<>> ELSE <<Head(bs)>> \o UntilNul(Tail(bs))

\* bytes.decode("ascii", errors="ignore"): bytes above 127 are dropped
RECURSIVE DecodeAsciiIgnore(_)
DecodeAsciiIgnore(bs) ==
    IF bs = <<>> THEN <<>>
    ELSE IF Head(bs) > 127 THEN DecodeAsciiIgnore(Tail(bs))
    ELSE <<Head(bs)>> \o DecodeAsciiIgnore(Tail(bs))

\* str.isspace for the code points 0..255
Whitespace == {9, 10, 11, 12, 13, 28, 29, 30, 31, 32, 133, 160}

RECURSIVE LStrip(_)
LStrip(str) ==
    IF str = <<>> THEN <<>>
    ELSE IF Head(str) \in Whitespace THEN LStrip(Tail(str)) ELSE str

RECURSIVE RStrip(_)
RStrip(str) ==
    IF str = <<>> THEN <<>>
    ELSE IF str[Len(str)] \in Whitespace THEN RStrip(SubSeq(str, 1, Len(str) - 1))
    ELSE str

\* str.strip()
Strip(str) == RStrip(LStrip(str))

\* `text or None`
OrNone(str) == IF str = <<>> THEN None ELSE Some(str)

\* dict.get(key)
DictGet(dict, key) == IF key \in DOMAIN dict THEN Some(dict[key]) ELSE None

\* dict[key] = value
DictSet(dict, key, value) ==
    [k \in (DOMAIN dict) \cup {key} |-> IF k = key THEN value ELSE dict[k]]

EmptyDict == [k \in {} |-> <<>>]

StateEvent(flags2, track, car, view_plid) ==
    [kind |-> "state", flags2 |-> flags2, track |-> track, car |-> car,
     view_plid |-> view_plid]

\* InSimClient._handle_is_sta: [st, events]
_handle_is_sta(st, packet) ==
    IF Len(packet) < 20 THEN [st |-> st, events |-> <<>>]
    ELSE LET flags2 == U16(packet, 16)
             view_plid == IF Len(packet) > 10 THEN packet[10 + 1] ELSE 0
             new_view == IF view_plid # 0 THEN Some(view_plid) ELSE None
             track == IF Len(packet) >= 26
                      THEN OrNone(Strip(DecodeAsciiIgnore(UntilNul(Slice(packet, 20, 26)))))
                      ELSE None
             new_track == IF IsSome(track) THEN track ELSE st.current_track
             car == IF IsSome(new_view) THEN DictGet(st.plid_to_car, Get(new_view))
                    ELSE None
             new_car == IF IsSome(car) /\ Get(car) # <<>> THEN car ELSE st.current_car
         IN  [st |-> [st EXCEPT !.last_flags2 = flags2, !.view_plid = new_view,
                                !.current_track = new_track, !.current_car = new_car],
              events |-> <<StateEvent(flags2, new_track, new_car, new_view)>>]

\* A mutant of _handle_is_npl: the StateEvent reports flags2 = 0.
_handle_is_npl_zero_flags(st, packet) ==
    IF Len(packet) < 44 THEN [st |-> st, events |-> <<>>]
    ELSE LET plid == packet[3 + 1]
             car == Strip(DecodeAsciiIgnore(UntilNul(Slice(packet, 40, 44))))
         IN  IF car = <<>> THEN [st |-> st, events |-> <<>>]
             ELSE LET new_car == IF IsSome(st.view_plid) /\ plid = Get(st.view_plid)
                                 THEN Some(car) ELSE st.current_car
                  IN  [st |-> [st EXCEPT !.plid_to_car = DictSet(@, plid, car),
                                         !.current_car = new_car],
                       events |-> <<StateEvent(0, st.current_track, new_car,
                                               st.view_plid)>>]

\* InSimClient._handle_is_npl: [st, events]
_handle_is_npl(st, packet) ==
    IF Len(packet) < 44 THEN [st |-> st, events |-> <<>>]
    ELSE LET plid == packet[3 + 1]
             car == Strip(DecodeAsciiIgnore(UntilNul(Slice(packet, 40, 44))))
         IN  IF car = <<>> THEN [st |-> st, events |-> <<>>]
             ELSE LET new_car == IF IsSome(st.view_plid) /\ plid = Get(st.view_plid)
                                 THEN Some(car) ELSE st.current_car
                  IN  [st |-> [st EXCEPT !.plid_to_car = DictSet(@, plid, car),
                                         !.current_car = new_car],
                       events |-> <<StateEvent(st.last_flags2, st.current_track,
                                               new_car, st.view_plid)>>]

\* The trailing segment shared by _parse_lap_packet and _parse_split_packet
\* (lines 879-904 and 943-968): None, or Some([spare, player_name]).
\* bytes.decode("latin-1") maps every byte to the code point of its value.
parse_name_segment(packet, size) ==
    LET remaining == size - 18 IN
    IF remaining <= 0 THEN None
    ELSE IF remaining < 24 THEN None
    ELSE LET has_spare == remaining > 24
             offset == IF has_spare THEN 19 ELSE 18
         IN  IF has_spare /\ remaining - 1 < 24 THEN None
             ELSE Some([spare |-> IF has_spare THEN packet[18 + 1] ELSE 0,
                        player_name |->
                            Strip(UntilNul(Slice(packet, offset, offset + 24)))])

\* InSimClient._parse_lap_packet: None or Some(LapEvent), track and car unset
_parse_lap_packet(packet) ==
    IF Len(packet) < 4 + 8 + 2 THEN None
    ELSE LET size == packet[1] IN
         IF Len(packet) < size THEN None
         ELSE LET seg == parse_name_segment(packet, size) IN
              IF ~IsSome(seg) THEN None
              ELSE Some([kind |-> "lap",
                         plid |-> packet[3 + 1],
                         lap_time_ms |-> U32(packet, 4),
                         estimate_time_ms |-> U32(packet, 8),
                         flags |-> U16(packet, 12),
                         penalty |-> packet[15 + 1],
                         num_pit_stops |-> packet[16 + 1],
                         fuel_percent |-> packet[17 + 1],
                         player_name |-> Get(seg).player_name,
                         spare |-> Get(seg).spare,
                         raw_sp0 |-> packet[14 + 1],
                         track |-> None,
                         car |-> None])

\* InSimClient._parse_split_packet: None or Some(SplitEvent), track and car unset
_parse_split_packet(packet) ==
    IF Len(packet) < 4 + 8 + 2 THEN None
    ELSE LET size == packet[1] IN
         IF Len(packet) < size THEN None
         ELSE LET seg == parse_name_segment(packet, size) IN
              IF ~IsSome(seg) THEN None
              ELSE Some([kind |-> "split",
                         plid |-> packet[3 + 1],
                         split_time_ms |-> U32(packet, 4),
                         estimate_time_ms |-> U32(packet, 8),
                         split_index |-> packet[14 + 1],
                         flags |-> U16(packet, 12),
                         penalty |-> packet[15 + 1],
                         num_pit_stops |-> packet[16 + 1],
                         fuel_percent |-> packet[17 + 1],
                         player_name |-> Get(seg).player_name,
                         spare |-> Get(seg).spare,
                         track |-> None,
                         car |-> None])

\* InSimClient._parse_button_click_packet: None or Some(ButtonClickEvent)
_parse_button_click_packet(packet) ==
    IF Len(packet) < 8 THEN None
    ELSE IF Len(packet) < packet[1] THEN None
    ELSE Some([kind |-> "button", req_id |-> packet[2 + 1], ucid |-> packet[3 + 1],
               click_id |-> packet[4 + 1], inst |-> packet[5 + 1],
               flags |-> U16(packet, 6)])

\* One 28-byte entry of an IS_MCI packet, struct format "<HHBBBBiiiHHHh"
CarInfo(packet, offset) ==
    [node |-> U16(packet, offset), lap |-> U16(packet, offset + 2),
     plid |-> packet[offset + 4 + 1], position |-> packet[offset + 5 + 1],
     info |-> packet[offset + 6 + 1], spare |-> packet[offset + 7 + 1],
     x |-> S32(packet, offset + 8), y |-> S32(packet, offset + 12),
     z |-> S32(packet, offset + 16), speed |-> U16(packet, offset + 20),
     direction |-> U16(packet, offset + 22), heading |-> U16(packet, offset + 24),
     angular_velocity |-> S16(packet, offset + 26)]

\* InSimClient._parse_mci_packet: None or Some(MultiCarInfoEvent), view_plid unset
_parse_mci_packet(packet) ==
    IF Len(packet) < 4 THEN None
    ELSE LET count == packet[3 + 1]
             entry_size == 28
             required == 4 + count * entry_size
         IN  IF count = 0 THEN Some([kind |-> "mci", cars |-> <<>>, view_plid |-> None])
             ELSE IF Len(packet) < required THEN None
             ELSE Some([kind |-> "mci",
                        cars |-> [i \in 1..count |->
                                    CarInfo(packet, 4 + (i - 1) * entry_size)],
                        view_plid |-> None])

\* The car given to a LAP or SPX event (lines 733-736 and 746-749)
event_car(st, plid) ==
    LET car == DictGet(st.plid_to_car, plid) IN
    IF ~IsSome(car) /\ IsSome(st.view_plid) /\ plid = Get(st.view_plid)
    THEN st.current_car
    ELSE car

\* InSimClient._handle_packet with one recording listener of every kind:
\* [st, events (the events handed to the listeners), rejected (a warning
\* "Rejecting ... packet" was logged)]
_handle_packet(st, packet) ==
    IF Len(packet) < 2 THEN [st |-> st, events |-> <<>>, rejected |-> FALSE]
    ELSE LET packet_type == packet[2] IN
         IF ~validate(packet) THEN [st |-> st, events |-> <<>>, rejected |-> TRUE]
         ELSE IF packet_type = ISP_VER
         THEN [st |-> st, events |-> <<>>, rejected |-> FALSE]
         ELSE IF packet_type = ISP_STA
         THEN LET r == _handle_is_sta(st, packet) IN
              [st |-> r.st, events |-> r.events, rejected |-> FALSE]
         ELSE IF packet_type = ISP_NPL
         THEN LET r == _handle_is_npl(st, packet) IN
              [st |-> r.st, events |-> r.events, rejected |-> FALSE]
         ELSE IF packet_type = ISP_LAP
         THEN LET event == _parse_lap_packet(packet) IN
              [st |-> st, rejected |-> FALSE,
               events |-> IF IsSome(event)
                          THEN <<[Get(event) EXCEPT
                                    !.track = st.current_track,
                                    !.car = event_car(st, Get(event).plid)]>>
                          ELSE <<>>]
         ELSE IF packet_type = ISP_SPX
         THEN LET event == _parse_split_packet(packet) IN
              [st |-> st, rejected |-> FALSE,
               events |-> IF IsSome(event)
                          THEN <<[Get(event) EXCEPT
                                    !.track = st.current_track,
                                    !.car = event_car(st, Get(event).plid)]>>
                          ELSE <<>>]
         ELSE IF packet_type = ISP_BTC
         THEN LET event == _parse_button_click_packet(packet) IN
              [st |-> st, rejected |-> FALSE,
               events |-> IF IsSome(event) THEN <<Get(event)>> ELSE <<>>]
         ELSE IF packet_type = ISP_MCI
         THEN LET event == _parse_mci_packet(packet) IN
              [st |-> st, rejected |-> FALSE,
               events |-> IF IsSome(event)
                          THEN <<[Get(event) EXCEPT !.view_plid = st.view_plid]>>
                          ELSE <<>>]
         ELSE [st |-> st, events |-> <<>>, rejected |-> FALSE]

\* The calls of _handle_packet made by one _process_buffer, in order:
\* [st, events (each with `at`, the stream position of its packet's first byte),
\*  rejected (the number of packets rejected)]
RECURSIVE handle_packets(_, _)
handle_packets(st, packets) ==
    IF packets = <<>> THEN [st |-> st, events |-> <<>>, rejected |-> 0]
    ELSE LET h == _handle_packet(st, Bytes(Head(packets)))
             r == handle_packets(h.st, Tail(packets))
         IN  [st |-> r.st,
              events |-> [i \in 1..Len(h.events) |->
                            [at |-> Head(packets)[1].p, ev |-> h.events[i]]]
                         \o r.events,
              rejected |-> (IF h.rejected THEN 1 ELSE 0) + r.rejected]

---------------------------------------------------------------------------
(* State *)

VARIABLES
    _buffer,          \* InSimClient._buffer, each byte with its stream position
    _buffer_limit,    \* InSimClient._buffer_limit
    _sock,            \* InSimClient._sock is not None
    _plid_to_car,     \* InSimClient._plid_to_car
    _current_track,   \* InSimClient._current_track
    _current_car,     \* InSimClient._current_car
    _view_plid,       \* InSimClient._view_plid
    _last_flags2,     \* InSimClient._last_flags2
    wire,             \* bytes sent by the simulator and not yet read by recv
    stream,           \* history: the bytes read from the socket since connect
    reads,            \* history: the length of each read since connect
    delivered,        \* history: the packets _process_buffer handed on since connect
    dispatched,       \* history: the events _process_buffer dispatched since connect
    sta_seen,         \* history: flags2 of the last IS_STA handled since connect
    last,             \* history: what the last call did
    arrivals,         \* the number of chunks sent so far (bounded by MaxArrivals)
    lap_state,            \* main: lap_state
    tracked_plid,         \* main: tracked_plid
    tracked_driver,       \* main: tracked_driver
    current_track,        \* main: current_track
    current_car,          \* main: current_car
    persistent_best,      \* main: persistent_best
    last_frame_time_ms,   \* main: last_frame_time_ms
    pending_lap_start,    \* main: pending_lap_start
    current_mode,         \* main: current_mode
    mode_settings,        \* main: mode_settings
    radar_enabled,        \* main: radar_enabled
    beep_enabled,         \* main: beep_system.enabled
    telemetry_server,     \* main: telemetry_server, with its track, car and focus PLID
    hud,                  \* main: hud_controller, with the states it drew last
    pb,                   \* persistence: the rows of table pb, (track, car) -> laptime_ms
    record_calls,         \* history: the record_lap calls of the last handler
    slast,                \* history: the last handler, its event and the state before
    scenario,             \* history: progress through the track-change scenario
    pc,                   \* main: the position in the frame loop's iteration
    frame,                \* main: time_ms of the OutSimFrame of the iteration
    player_lap,           \* TelemetryBroadcaster: the last update_player_lap call
    drawn,                \* history: the frame of the last iteration and whether radar.draw ran
    db,                   \* persistence: the database file, its ledger and table pb
    migrations_dir,       \* persistence: the stems of the *.sql files of _MIGRATIONS_DIR
    store_last,           \* history: the last call of the store, the file before, the result
    recorded,             \* history: the lap times record_lap accepted, by (track, car)
    outsim_call,          \* history: the call OutSimClient(...), its keywords and what it raised
    outsim,               \* OutSimClient: _sock is not None, _buffer_size, _allowed_networks
    frames_pc,            \* OutSimClient.frames(): the position of the generator
    received,             \* history: what recvfrom returned or raised since frames() began
    yielded,              \* history: the frames the generator yielded
    broadcaster,          \* TelemetryBroadcaster: the fields its _lock guards
    _lock,                \* TelemetryBroadcaster._lock: the thread holding it, or None
    writer_pc,            \* per calling thread: the update_* call it is in and where
    snap_pc,              \* the loop thread: where _broadcast_loop and _build_snapshot are
    snap_hist,            \* history: the update_* calls made, the last snapshot built
    _clients,             \* TelemetryBroadcaster._clients: the writers of the accepted clients
    connection,           \* per connection: its _handle_client coroutine, its writer, its peer
    broadcast_pc,         \* the _broadcast_loop coroutine: where it is, its locals
    event_loop,           \* TelemetryBroadcaster._loop: the reference, the loop's queue
    runner,               \* the loop thread: runner() and the _run coroutine
    stopper,              \* the thread calling stop(): where it is, its local `loop`
    config_file,          \* config.json: whether it exists, its st_mtime_ns, its content
    last_mtime,           \* main.watch_config: last_mtime
    config,               \* main: config, but for sp and mp, which are the objects of mode_settings
    active_telemetry_config,  \* main: active_telemetry_config
    broadcasters,         \* history: the broadcasters apply_telemetry_config made, their threads
    reload_last,          \* history: the iteration of watch_config that acted last, if no
                          \* other thread has acted since, and the state before it
    migration,            \* a call of _apply_migrations step by step: the file, the open
                          \* transaction, where the call is, what it has left to do
    config_lock,          \* main: config_lock, the thread holding it or "free"
    main_thread,          \* the main thread: where it is in the frame loop, its locals
    watcher_thread,       \* the thread of watch_config: where it is, its locals
    beep_system,          \* BeepSubsystem: _config, _interval_pattern,
                          \* _next_interval_index, _next_beep_time_ms (_enabled is beep_enabled)
    beep_calls,           \* history: what process_frame raised, the calls of play_beep
    stop_event,           \* main: stop_event.is_set()
    exit_state            \* the end of main: why the frame loop ended, insim.connected,
                          \* HUDController._visible, the watcher's local `hud`

framerVars == <<_buffer, _buffer_limit, _sock, wire, stream, reads, delivered,
               arrivals>>
decoderVars == <<_plid_to_car, _current_track, _current_car, _view_plid, _last_flags2,
                 dispatched, sta_seen>>
sessionVars == <<lap_state, tracked_plid, tracked_driver, current_track, current_car,
                 persistent_best, last_frame_time_ms, pending_lap_start, current_mode,
                 mode_settings, radar_enabled, beep_enabled, telemetry_server, hud,
                 pb, record_calls, slast, scenario>>
loopVars == <<pc, frame, player_lap, drawn>>
storeVars == <<db, migrations_dir, store_last, recorded>>
outsimVars == <<outsim_call, outsim, frames_pc, received, yielded>>
snapshotVars == <<broadcaster, _lock, writer_pc, snap_pc, snap_hist>>
clientVars == <<_clients, connection, broadcast_pc>>
shutdownVars == <<event_loop, runner, stopper>>
broadcastVars == <<snapshotVars, clientVars, shutdownVars>>
reloadVars == <<config_file, last_mtime, config, active_telemetry_config, broadcasters,
               reload_last>>
migrateVars == <<migration>>
threadVars == <<config_lock, main_thread, watcher_thread, beep_system, beep_calls>>
exitVars == <<stop_event, exit_state>>
lateVars == <<migrateVars, threadVars, exitVars>>
moreVars == <<broadcastVars, reloadVars, lateVars>>
auxVars == <<loopVars, storeVars, outsimVars, moreVars>>
vars == <<framerVars, decoderVars, last, sessionVars, auxVars>>

\* InSimClient.__init__ default of buffer_limit
DefaultBufferLimit == 65536
\* socket.recv(4096) in poll
RecvSize == 4096

DecoderState ==
    [plid_to_car |-> _plid_to_car, current_track |-> _current_track,
     current_car |-> _current_car, view_plid |-> _view_plid,
     last_flags2 |-> _last_flags2]

SetDecoderState(st) ==
    /\ _plid_to_car' = st.plid_to_car
    /\ _current_track' = st.current_track
    /\ _current_car' = st.current_car
    /\ _view_plid' = st.view_plid
    /\ _last_flags2' = st.last_flags2

\* the decoder state set by __init__ and by connect (lines 353-357, 384-388)
FreshDecoder ==
    [plid_to_car |-> EmptyDict, current_track |-> None, current_car |-> None,
     view_plid |-> None, last_flags2 |-> 0]

Last(op) ==
    [op |-> op,             \* the call
     pre |-> <<>>,          \* the buffer when it was made
     inbuf |-> <<>>,        \* the buffer _append_to_buffer left, _process_buffer found
     data |-> <<>>,         \* the bytes appended
     over |-> FALSE,        \* the append exceeded the limit
     retained |-> None,     \* the bytes the limit left, before the resynchronisation
     log |-> <<>>,          \* the warnings logged
     packets |-> <<>>,      \* the packets handed to _handle_packet
     events |-> <<>>,       \* the events handed to listeners
     rejected |-> 0,        \* the number of packets rejected
     st |-> FreshDecoder,   \* the decoder state when the call was made
     sta |-> None]          \* sta_seen when the call was made

\* flags2 of the last valid IS_STA among `packets`, or `seen` when there is none
RECURSIVE LastSta(_, _)
LastSta(seen, packets) ==
    IF packets = <<>> THEN seen
    ELSE LET packet == Head(packets) IN
         LastSta(IF validate(packet) /\ packet[2] = ISP_STA
                 THEN Some(U16(packet, 16)) ELSE seen,
                 Tail(packets))

AllBytes(packets) == [i \in 1..Len(packets) |-> Bytes(packets[i])]

---------------------------------------------------------------------------
(* Operations of InSimClient *)

\* InSimClient.connect (lines 371-389); the IS_ISI packet it sends is not modelled
Connect ==
    /\ _sock' = TRUE
    /\ _buffer' = <<>>
    /\ SetDecoderState(FreshDecoder)
    /\ wire' = <<>>
    /\ stream' = <<>>
    /\ reads' = <<>>
    /\ delivered' = <<>>
    /\ dispatched' = <<>>
    /\ sta_seen' = None
    /\ last' = Last("connect")
    /\ UNCHANGED <<_buffer_limit, arrivals, sessionVars, auxVars>>

\* _append_to_buffer(data), lines 586-614
AppendData(data) ==
    LET tagged == Tag(data, Len(stream))
        t == append_trim(_buffer, tagged, _buffer_limit)
        r == _append_to_buffer(_buffer, tagged, _buffer_limit)
    IN  /\ _buffer' = r.buffer
        /\ stream' = stream \o data
        /\ reads' = Append(reads, Len(data))
        /\ last' = [Last("append") EXCEPT !.pre = _buffer, !.data = data,
                       !.inbuf = r.buffer, !.over = t.over,
                       !.retained = IF t.over THEN Some(t.buffer) ELSE None,
                       !.log = r.log, !.st = DecoderState, !.sta = sta_seen]
        /\ UNCHANGED <<_buffer_limit, _sock, delivered, decoderVars, sessionVars, auxVars>>

\* _process_buffer(), lines 616-635
ProcessData ==
    LET f == frame_packets(_buffer, _buffer_limit)
        h == handle_packets(DecoderState, f.packets)
    IN  /\ _buffer' = f.buffer
        /\ SetDecoderState(h.st)
        /\ delivered' = delivered \o f.packets
        /\ dispatched' = dispatched \o h.events
        /\ sta_seen' = LastSta(sta_seen, AllBytes(f.packets))
        /\ last' = [Last("process") EXCEPT !.pre = _buffer, !.inbuf = _buffer,
                       !.retained = IF last.op = "append" THEN last.retained ELSE None,
                       !.log = f.log, !.packets = f.packets, !.events = h.events,
                       !.rejected = h.rejected, !.st = DecoderState,
                       !.sta = sta_seen]
        /\ UNCHANGED <<_buffer_limit, _sock, stream, reads, sessionVars, auxVars>>

\* InSimClient.poll with `data` returned by recv (lines 582-583)
PollData(data) ==
    LET tagged == Tag(data, Len(stream))
        t == append_trim(_buffer, tagged, _buffer_limit)
        a == _append_to_buffer(_buffer, tagged, _buffer_limit)
        f == frame_packets(a.buffer, _buffer_limit)
        h == handle_packets(DecoderState, f.packets)
    IN  /\ _buffer' = f.buffer
        /\ SetDecoderState(h.st)
        /\ stream' = stream \o data
        /\ reads' = Append(reads, Len(data))
        /\ delivered' = delivered \o f.packets
        /\ dispatched' = dispatched \o h.events
        /\ sta_seen' = LastSta(sta_seen, AllBytes(f.packets))
        /\ last' = [Last("poll") EXCEPT !.pre = _buffer, !.inbuf = a.buffer,
                       !.data = data, !.over = t.over,
                       !.retained = IF t.over THEN Some(t.buffer) ELSE None,
                       !.log = a.log \o f.log, !.packets = f.packets,
                       !.events = h.events, !.rejected = h.rejected,
                       !.st = DecoderState, !.sta = sta_seen]
        /\ UNCHANGED <<_buffer_limit, _sock, sessionVars, auxVars>>

\* poll: recv returns b"" (the simulator closed the connection), lines 577-580
PollEof ==
    /\ _sock
    /\ wire = <<>>
    /\ _sock' = FALSE
    /\ last' = Last("close")
    /\ UNCHANGED <<_buffer, _buffer_limit, wire, stream, reads, delivered, arrivals,
                   decoderVars, sessionVars, auxVars>>

---------------------------------------------------------------------------
(* Session engine, main.py:33-55 and 384-738, and the PB store,            *)
(* persistence.py:97-159.  `s` is the session state: the closure variables  *)
(* of main() with the rows of table pb and the record_lap calls made.       *)

\* the truth value of an Optional[str]: neither None nor ""
Truthy(o) == IsSome(o) /\ Get(o) # <<>>

\* str(n) for n >= 0
RECURSIVE Digits(_)
Digits(n) == IF n < 10 THEN <<48 + n>> ELSE Digits(n \div 10) \o <<48 + (n % 10)>>

\* f"PLID {plid}"
PlidLabel(plid) == <<80, 76, 73, 68, 32>> \o Digits(plid)

\* [current_splits[idx] for idx in sorted(current_splits)]
RECURSIVE SortedValues(_)
SortedValues(dict) ==
    IF DOMAIN dict = {} THEN <<>>
    ELSE LET k == CHOOSE x \in DOMAIN dict : \A y \in DOMAIN dict : x <= y IN
         <<dict[k]>> \o SortedValues([j \in (DOMAIN dict) \ {k} |-> dict[j]])

\* main.clear_session_timing
clear_session_timing(state) ==
    [state EXCEPT !.current_lap_start_ms = None,
                  !.best_lap_ms = None,
                  !.current_split_times = EmptyDict,
                  !.last_lap_split_fractions = <<>>,
                  !.pb_split_fractions = <<>>,
                  !.latest_estimated_total_ms = None]

\* A mutant of update_session_best: the latest lap is the session best.
update_session_best_latest(state, lap_time_ms) ==
    [lap_state |-> [state EXCEPT !.best_lap_ms = Some(lap_time_ms)], improved |-> TRUE]

\* main.update_session_best: [lap_state, improved]
update_session_best(state, lap_time_ms) ==
    IF lap_time_ms <= 0 THEN [lap_state |-> state, improved |-> FALSE]
    ELSE IF ~IsSome(state.best_lap_ms) \/ lap_time_ms < Get(state.best_lap_ms)
    THEN [lap_state |-> [state EXCEPT !.best_lap_ms = Some(lap_time_ms)],
          improved |-> TRUE]
    ELSE [lap_state |-> state, improved |-> FALSE]

\* main.reset_split_tracking
reset_split_tracking(state) ==
    [state EXCEPT !.current_split_times = EmptyDict,
                  !.latest_estimated_total_ms = None]

\* persistence.PersonalBestRecord without recorded_at
PersonalBestRecord(track, car, laptime_ms) ==
    [track |-> track, car |-> car, laptime_ms |-> laptime_ms]

\* persistence.load_personal_best over the rows `rows`
load_personal_best(rows, track, car) ==
    IF <<track, car>> \in DOMAIN rows
    THEN Some(PersonalBestRecord(track, car, rows[<<track, car>>]))
    ELSE None

\* persistence.record_lap for laptime_ms >= 0: [rows, record, improved]
record_lap(rows, track, car, laptime_ms) ==
    LET existing == DictGet(rows, <<track, car>>) IN
    IF ~IsSome(existing) \/ laptime_ms < Get(existing)
    THEN [rows |-> DictSet(rows, <<track, car>>, laptime_ms),
          record |-> PersonalBestRecord(track, car, laptime_ms),
          improved |-> TRUE]
    ELSE [rows |-> rows,
          record |-> PersonalBestRecord(track, car, Get(existing)),
          improved |-> FALSE]

\* `value.strip() if value else None`
Normalise(value) == IF Truthy(value) THEN Some(Strip(Get(value))) ELSE None

\* A mutant of update_track_context: the tracked driver and the session timing
\* survive a change of track or car.
update_track_context_keeps_driver(s, track, car) ==
    LET track_changed == Truthy(Normalise(track)) /\ Normalise(track) # s.current_track
        car_changed == Truthy(Normalise(car)) /\ Normalise(car) # s.current_car
    IN  [s EXCEPT !.current_track = IF track_changed THEN Normalise(track) ELSE @,
                  !.current_car = IF car_changed THEN Normalise(car) ELSE @]

\* A mutant of update_track_context: the personal best is loaded on a change
\* of track only, a change of car keeps the one of the car before.
update_track_context_track_only(s, track, car) ==
    LET normalised_track == Normalise(track)
        normalised_car == Normalise(car)
        track_changed == Truthy(normalised_track) /\ normalised_track # s.current_track
        car_changed == Truthy(normalised_car) /\ normalised_car # s.current_car
        new_track == IF track_changed THEN normalised_track ELSE s.current_track
        new_car == IF car_changed THEN normalised_car ELSE s.current_car
        s1 == [s EXCEPT !.current_track = new_track,
                        !.current_car = new_car,
                        !.telemetry_server =
                            IF IsSome(@)
                            THEN Some([Get(@) EXCEPT !.track = new_track, !.car = new_car])
                            ELSE @]
    IN  IF track_changed \/ car_changed
        THEN LET s2 == [s1 EXCEPT !.tracked_plid = None,
                                  !.tracked_driver = None,
                                  !.lap_state = clear_session_timing(@),
                                  !.pending_lap_start = TRUE]
             IN  IF Truthy(new_track) /\ Truthy(new_car) /\ track_changed
                 THEN [s2 EXCEPT !.persistent_best =
                                     load_personal_best(s.pb, Get(new_track), Get(new_car)),
                                 !.lap_state = reset_split_tracking(@)]
                 ELSE [s2 EXCEPT !.lap_state = reset_split_tracking(@)]
        ELSE s1

\* main.update_track_context
update_track_context(s, track, car) ==
    LET normalised_track == Normalise(track)
        normalised_car == Normalise(car)
        track_changed == Truthy(normalised_track) /\ normalised_track # s.current_track
        car_changed == Truthy(normalised_car) /\ normalised_car # s.current_car
        new_track == IF track_changed THEN normalised_track ELSE s.current_track
        new_car == IF car_changed THEN normalised_car ELSE s.current_car
        s1 == [s EXCEPT !.current_track = new_track,
                        !.current_car = new_car,
                        !.telemetry_server =
                            IF IsSome(@)
                            THEN Some([Get(@) EXCEPT !.track = new_track, !.car = new_car])
                            ELSE @]
    IN  IF track_changed \/ car_changed
        THEN LET s2 == [s1 EXCEPT !.tracked_plid = None,
                                  !.tracked_driver = None,
                                  !.lap_state = clear_session_timing(@),
                                  !.pending_lap_start = TRUE]
             IN  IF Truthy(new_track) /\ Truthy(new_car)
                 THEN [s2 EXCEPT !.persistent_best =
                                     load_personal_best(s.pb, Get(new_track), Get(new_car)),
                                 !.lap_state = reset_split_tracking(@)]
                 ELSE s2
        ELSE s1

\* server.set_focus_plid(plid) when there is a server
set_focus_plid(s, plid) ==
    [s EXCEPT !.telemetry_server =
                  IF IsSome(@) THEN Some([Get(@) EXCEPT !.focus_plid = plid]) ELSE @]

\* HUDController.RADAR_BUTTON_ID, BEEPS_BUTTON_ID
RADAR_BUTTON_ID == 200
BEEPS_BUTTON_ID == 201

\* hud_controller.show(radar, beeps), main line 815
HUDController_show(radar_state, beeps_state) ==
    Some([radar |-> radar_state, beeps |-> beeps_state])

\* `hud = hud_controller; if hud is not None: hud.update(radar, beeps)`
hud_update(controller, radar_state, beeps_state) ==
    IF IsSome(controller) THEN Some([radar |-> radar_state, beeps |-> beeps_state])
    ELSE controller

\* main.handle_state
handle_state(s, event) ==
    LET s1 == set_focus_plid(update_track_context(s, event.track, event.car),
                             event.view_plid)
        new_mode == IF (event.flags2 \div ISS_MULTI) % 2 = 1 THEN "mp" ELSE "sp"
        settings == s1.mode_settings[new_mode]
    IN  IF new_mode = s1.current_mode THEN s1
        ELSE [s1 EXCEPT !.current_mode = new_mode,
                        !.radar_enabled = settings.radar_enabled,
                        !.beep_enabled = settings.beeps_enabled,
                        !.hud = hud_update(@, settings.radar_enabled,
                                           settings.beeps_enabled)]

\* A mutant of handle_button: the click is acted on whatever its flags are.
handle_button_any_flags(s, event) ==
    LET mode == s.current_mode
        settings == s.mode_settings[mode]
    IN  IF event.click_id = RADAR_BUTTON_ID
        THEN [s EXCEPT !.mode_settings[mode].radar_enabled = ~settings.radar_enabled,
                       !.radar_enabled = ~settings.radar_enabled,
                       !.hud = hud_update(@, ~settings.radar_enabled, s.beep_enabled)]
        ELSE IF event.click_id = BEEPS_BUTTON_ID
        THEN [s EXCEPT !.mode_settings[mode].beeps_enabled = ~settings.beeps_enabled,
                       !.beep_enabled = ~settings.beeps_enabled,
                       !.hud = hud_update(@, s.radar_enabled, ~settings.beeps_enabled)]
        ELSE s

\* main.handle_button, lines 740-772
handle_button(s, event) ==
    LET mode == s.current_mode
        settings == s.mode_settings[mode]
    IN  IF event.flags % 2 = 0 THEN s
        ELSE IF event.click_id = RADAR_BUTTON_ID
        THEN [s EXCEPT !.mode_settings[mode].radar_enabled = ~settings.radar_enabled,
                       !.radar_enabled = ~settings.radar_enabled,
                       !.hud = hud_update(@, ~settings.radar_enabled, s.beep_enabled)]
        ELSE IF event.click_id = BEEPS_BUTTON_ID
        THEN [s EXCEPT !.mode_settings[mode].beeps_enabled = ~settings.beeps_enabled,
                       !.beep_enabled = ~settings.beeps_enabled,
                       !.hud = hud_update(@, s.radar_enabled, ~settings.beeps_enabled)]
        ELSE s

\* the adoption of the event's driver when nobody is tracked
\* (handle_lap lines 573-578, handle_split lines 727-731)
adopt_driver(s, event) ==
    IF ~IsSome(s.tracked_plid)
    THEN [s EXCEPT !.tracked_plid = Some(event.plid),
                   !.tracked_driver = IF event.player_name # <<>>
                                      THEN Some(event.player_name)
                                      ELSE Some(PlidLabel(event.plid)),
                   !.lap_state = [reset_split_tracking(@) EXCEPT
                                     !.last_lap_split_fractions = <<>>]]
    ELSE s

\* A mutant of lap_fractions: every split is kept as split_time / lap_time.
lap_fractions_unfiltered(split_times, lap_time, last_num) ==
    [i \in 1..Len(split_times) |-> [num |-> split_times[i], den |-> lap_time]]

\* the loop of handle_lap lines 618-627 from `last_fraction` on; a fraction
\* split_time / lap_time is kept as [num, den], and fractions of one lap are
\* compared by their numerators
RECURSIVE lap_fractions(_, _, _)
lap_fractions(split_times, lap_time, last_num) ==
    IF split_times = <<>> THEN <<>>
    ELSE LET num == Max(last_num, Min(Head(split_times), lap_time)) IN
         IF num >= lap_time THEN <<>>
         ELSE IF num > last_num
         THEN <<[num |-> num, den |-> lap_time]>>
              \o lap_fractions(Tail(split_times), lap_time, num)
         ELSE lap_fractions(Tail(split_times), lap_time, last_num)

\* A mutant of complete_lap: the lap is recorded whatever its time.
complete_lap_any_time(s, event, split_times) ==
    IF Truthy(s.current_track) /\ Truthy(s.current_car)
    THEN LET r == record_lap(s.pb, Get(s.current_track), Get(s.current_car),
                             event.lap_time_ms)
         IN  [s EXCEPT !.pb = r.rows,
                       !.persistent_best = Some(r.record),
                       !.record_calls = Append(@, <<Get(s.current_track),
                                                    Get(s.current_car),
                                                    event.lap_time_ms>>)]
    ELSE s

\* handle_lap lines 606-648: the bookkeeping of a completed lap
complete_lap(s, event, split_times) ==
    LET lap_time == event.lap_time_ms IN
    IF lap_time > 0
    THEN LET best == update_session_best(s.lap_state, lap_time).lap_state
             fractions == IF split_times # <<>>
                          THEN lap_fractions(split_times, lap_time, 0)
                          ELSE <<>>
             state1 == [best EXCEPT !.last_lap_split_fractions = fractions]
         IN  IF Truthy(s.current_track) /\ Truthy(s.current_car)
             THEN LET r == record_lap(s.pb, Get(s.current_track), Get(s.current_car),
                                      lap_time)
                      copy == \/ r.improved
                              \/ /\ state1.pb_split_fractions = <<>>
                                 /\ r.record.laptime_ms = lap_time
                                 /\ split_times # <<>>
                  IN  [s EXCEPT !.pb = r.rows,
                                !.persistent_best = Some(r.record),
                                !.record_calls = Append(@, <<Get(s.current_track),
                                                             Get(s.current_car),
                                                             lap_time>>),
                                !.lap_state =
                                    IF copy
                                    THEN [state1 EXCEPT !.pb_split_fractions = fractions]
                                    ELSE state1]
             ELSE [s EXCEPT !.lap_state = state1]
    ELSE s

\* main.handle_lap
handle_lap(s, event) ==
    LET s1 == adopt_driver(update_track_context(s, event.track, event.car), event)
        s2 == set_focus_plid(s1, s1.tracked_plid)
    IN  IF Some(event.plid) # s2.tracked_plid THEN s2
        ELSE LET lap_time == event.lap_time_ms
                 has_estimate == event.estimate_time_ms > 0
                 estimate_hint == IF has_estimate /\ lap_time <= 0
                                  THEN Some(event.estimate_time_ms) ELSE None
                 s3 == IF has_estimate
                       THEN [s2 EXCEPT !.lap_state.latest_estimated_total_ms =
                                           Some(event.estimate_time_ms)]
                       ELSE s2
                 split_times == SortedValues(s3.lap_state.current_split_times)
                 s4 == complete_lap(s3, event, split_times)
                 s5 == IF ~IsSome(s4.last_frame_time_ms)
                       THEN [s4 EXCEPT !.pending_lap_start = TRUE]
                       ELSE [s4 EXCEPT !.lap_state.current_lap_start_ms =
                                           s4.last_frame_time_ms,
                                       !.pending_lap_start = FALSE]
                 s6 == [s5 EXCEPT !.lap_state = reset_split_tracking(@)]
             IN  IF IsSome(estimate_hint)
                 THEN [s6 EXCEPT !.lap_state.latest_estimated_total_ms = estimate_hint]
                 ELSE s6

\* main.handle_split
handle_split(s, event) ==
    LET s1 == adopt_driver(update_track_context(s, event.track, event.car), event)
    IN  IF Some(event.plid) # s1.tracked_plid THEN s1
        ELSE LET s2 == [s1 EXCEPT !.lap_state.current_split_times =
                                      DictSet(@, event.split_index, event.split_time_ms)]
             IN  IF event.estimate_time_ms > 0
                 THEN [s2 EXCEPT !.lap_state.latest_estimated_total_ms =
                                     Some(event.estimate_time_ms)]
                 ELSE s2

\* A mutant of start_frame: a pending lap start is not latched.
start_frame_no_latch(s, time_ms) == [s EXCEPT !.last_frame_time_ms = Some(time_ms)]

\* the frame loop of main up to insim.poll(), lines 819-823
start_frame(s, time_ms) ==
    LET s1 == [s EXCEPT !.last_frame_time_ms = Some(time_ms)] IN
    IF s1.pending_lap_start
    THEN [s1 EXCEPT !.lap_state.current_lap_start_ms = Some(time_ms),
                    !.pending_lap_start = FALSE]
    ELSE s1

\* A fraction split / total is kept exactly, as [num, den] with den > 0
Fraction(num, den) == [num |-> num, den |-> den]

FractionLess(a, b) == a.num * b.den < b.num * a.den

\* int(round(num / den)) for num >= 0 and den > 0: round() takes the nearest
\* integer and the even one of two equally near
RoundDiv(num, den) ==
    LET q == num \div den
        r == num % den
    IN  IF 2 * r < den THEN q
        ELSE IF 2 * r > den THEN q + 1
        ELSE IF q % 2 = 0 THEN q ELSE q + 1

\* the loop of main.normalise_fractions from `last_value` on
RECURSIVE normalise_from(_, _)
normalise_from(values, last_value) ==
    IF values = <<>> THEN <<>>
    ELSE LET value == Head(values) IN
         IF value.num <= 0 THEN normalise_from(Tail(values), last_value)
         ELSE LET capped == IF value.num >= value.den THEN Fraction(1, 1) ELSE value
                  clamped == IF FractionLess(capped, last_value) THEN last_value
                             ELSE capped
              IN  IF clamped.num >= clamped.den THEN <<>>
                  ELSE IF FractionLess(last_value, clamped)
                  THEN <<clamped>> \o normalise_from(Tail(values), clamped)
                  ELSE normalise_from(Tail(values), last_value)

\* main.normalise_fractions
normalise_fractions(values) == normalise_from(values, Fraction(0, 1))

\* [split / estimate for split in ordered if split < estimate]
RECURSIVE derived_fractions(_, _)
derived_fractions(ordered, estimate) ==
    IF ordered = <<>> THEN <<>>
    ELSE IF Head(ordered) < estimate
    THEN <<Fraction(Head(ordered), estimate)>>
         \o derived_fractions(Tail(ordered), estimate)
    ELSE derived_fractions(Tail(ordered), estimate)

\* main.resolve_reference_fractions over lap_state `state`
resolve_reference_fractions(state) ==
    IF state.pb_split_fractions # <<>>
    THEN normalise_fractions(state.pb_split_fractions)
    ELSE IF state.last_lap_split_fractions # <<>>
    THEN normalise_fractions(state.last_lap_split_fractions)
    ELSE LET current_splits == state.current_split_times
             estimate == state.latest_estimated_total_ms
         IN  IF DOMAIN current_splits # {} /\ IsSome(estimate) /\ Get(estimate) > 0
             THEN normalise_fractions(
                      derived_fractions(SortedValues(current_splits), Get(estimate)))
             ELSE <<>>

\* A mutant of estimate_from_progress: the personal best itself is taken as the
\* estimated total.
estimate_from_progress_by_pb(state, pb_total, current_ms) ==
    Some(Min(current_ms, pb_total))

\* estimate_from_progress of main.estimate_reference_time, for current_ms >= 0
estimate_from_progress(state, pb_total, current_ms) ==
    LET estimate_total == state.latest_estimated_total_ms IN
    IF ~IsSome(estimate_total) \/ Get(estimate_total) <= 0 THEN None
    ELSE IF current_ms >= Get(estimate_total) THEN Some(pb_total)
    ELSE Some(Min(RoundDiv(pb_total * current_ms, Get(estimate_total)), pb_total))

\* [t for t in sorted_split_times if t <= current_ms]
RECURSIVE passed_splits(_, _)
passed_splits(times, current_ms) ==
    IF times = <<>> THEN <<>>
    ELSE IF Head(times) <= current_ms
    THEN <<Head(times)>> \o passed_splits(Tail(times), current_ms)
    ELSE passed_splits(Tail(times), current_ms)

\* A mutant of estimate_reference_time: the time driven in the lap is the
\* reference.
estimate_reference_time_elapsed(s, current_ms) ==
    IF ~IsSome(current_ms) \/ ~IsSome(s.persistent_best) THEN None ELSE current_ms

\* main.estimate_reference_time in session `s`: None or Some(reference time)
estimate_reference_time(s, current_ms) ==
    IF ~IsSome(current_ms) THEN None
    ELSE IF ~IsSome(s.persistent_best) \/ Get(s.persistent_best).laptime_ms <= 0
    THEN None
    ELSE
    LET pb_total == Get(s.persistent_best).laptime_ms
        now == Get(current_ms)
        fractions == resolve_reference_fractions(s.lap_state)
        boundaries == fractions \o <<Fraction(1, 1)>>
        passed_split_times ==
            passed_splits(SortedValues(s.lap_state.current_split_times), now)
    IN  IF fractions = <<>> THEN estimate_from_progress(s.lap_state, pb_total, now)
        ELSE IF passed_split_times = <<>>
        THEN estimate_from_progress(s.lap_state, pb_total, now)
        ELSE
        LET segment_index == Min(Len(passed_split_times), Len(boundaries) - 1)
            start_fraction == IF segment_index > 0 THEN boundaries[segment_index]
                              ELSE Fraction(0, 1)
            end_fraction == boundaries[segment_index + 1]
            pb_start == RoundDiv(pb_total * start_fraction.num, start_fraction.den)
            pb_end == RoundDiv(pb_total * end_fraction.num, end_fraction.den)
            pb_segment_duration == Max(pb_end - pb_start, 1)
            segment_start_time == IF segment_index > 0
                                  THEN passed_split_times[segment_index]
                                  ELSE 0
            segment_elapsed == Max(now - segment_start_time, 0)
            \* round(min(elapsed / duration, 1.0) * duration)
            within_segment == Min(segment_elapsed, pb_segment_duration)
        IN  Some(Min(pb_start + within_segment, pb_total))

\* the frame loop of main after insim.poll(), lines 841-885: the arguments of
\* server.update_player_lap for the frame at `time_ms`
lap_update(s, time_ms) ==
    LET current_start == s.lap_state.current_lap_start_ms
        current_lap_ms == IF ~IsSome(current_start) THEN None
                          ELSE Some(Max(0, time_ms - Get(current_start)))
        reference_time == estimate_reference_time(s, current_lap_ms)
        delta_ms == IF IsSome(reference_time) /\ IsSome(current_lap_ms)
                    THEN Some(Get(current_lap_ms) - Get(reference_time))
                    ELSE None
        estimated_total == s.lap_state.latest_estimated_total_ms
        lap_progress ==
            IF /\ IsSome(reference_time)
               /\ IsSome(s.persistent_best)
               /\ Get(s.persistent_best).laptime_ms > 0
            THEN LET total == Get(s.persistent_best).laptime_ms IN
                 Some(Fraction(Min(Max(Get(reference_time), 0), total), total))
            ELSE IF IsSome(current_lap_ms)
                    /\ IsSome(estimated_total) /\ Get(estimated_total) > 0
            THEN Some(Fraction(Min(Max(Get(current_lap_ms), 0), Get(estimated_total)),
                               Get(estimated_total)))
            ELSE None
    IN  [progress |-> lap_progress, current_lap_ms |-> current_lap_ms,
         reference_lap_ms |-> reference_time, delta_ms |-> delta_ms]

---------------------------------------------------------------------------
(* The PB store, persistence.py:19-159.  A database file is                 *)
(* [schema_migrations, pb]: each table is None while it does not exist,     *)
(* else Some(the set of its rows).  A datetime is [wall, tzinfo] in hours,   *)
(* tzinfo None (naive) or Some(the offset from UTC).                         *)

datetime(wall, tzinfo) == [wall |-> wall, tzinfo |-> tzinfo]

\* timestamp.replace(tzinfo=utc) if naive else timestamp.astimezone(utc)
as_utc(timestamp) ==
    IF ~IsSome(timestamp.tzinfo) THEN datetime(timestamp.wall, Some(0))
    ELSE datetime(timestamp.wall - Get(timestamp.tzinfo), Some(0))

\* datetime.isoformat: the text carries the wall time and the offset
isoformat(timestamp) == <<timestamp.wall, timestamp.tzinfo>>

\* datetime.fromisoformat
fromisoformat(text) == datetime(text[1], text[2])

\* persistence.PersonalBestRecord
PersonalBestRecordAt(track, car, laptime_ms, recorded_at) ==
    [track |-> track, car |-> car, laptime_ms |-> laptime_ms, recorded_at |-> recorded_at]

\* a row of table pb
PbRow(track, car, laptime_ms, date) ==
    [track |-> track, car |-> car, laptime_ms |-> laptime_ms, date |-> date]

\* a file sqlite3.connect has just created
EmptyFile == [schema_migrations |-> None, pb |-> None]

\* "0001_initial", "0002_b" and "0010_a"
V0001_initial == <<48, 48, 48, 49, 95, 105, 110, 105, 116, 105, 97, 108>>
V0002_b == <<48, 48, 48, 50, 95, 98>>
V0010_a == <<48, 48, 49, 48, 95, 97>>

\* a < b for two str
RECURSIVE StrLess(_, _)
StrLess(a, b) ==
    IF a = <<>> THEN b # <<>>
    ELSE IF b = <<>> THEN FALSE
    ELSE IF a[1] # b[1] THEN a[1] < b[1]
    ELSE StrLess(Tail(a), Tail(b))

\* persistence._load_migration_versions: sorted(_MIGRATIONS_DIR.glob("*.sql"))
RECURSIVE _load_migration_versions(_)
_load_migration_versions(dir) ==
    IF dir = {} THEN <<>>
    ELSE LET first == CHOOSE x \in dir : \A y \in dir \ {x} : StrLess(x, y) IN
         <<first>> \o _load_migration_versions(dir \ {first})

\* conn.executescript of a migration: 0001_initial creates table pb and its
\* unique index on (track, car) unless they exist
executescript(conn, version) ==
    IF version = V0001_initial /\ ~IsSome(conn.pb) THEN [conn EXCEPT !.pb = Some({})]
    ELSE conn

\* the loop of _apply_migrations, lines 52-63: [conn, ran]
RECURSIVE apply_pending(_, _, _)
apply_pending(conn, applied, paths) ==
    IF paths = <<>> THEN [conn |-> conn, ran |-> <<>>]
    ELSE LET version == Head(paths) IN
         IF version \in applied THEN apply_pending(conn, applied, Tail(paths))
         ELSE LET script == executescript(conn, version)
                  noted == [script EXCEPT !.schema_migrations = Some(Get(@) \cup {version})]
                  rest == apply_pending(noted, applied, Tail(paths))
              IN  [conn |-> rest.conn, ran |-> <<version>> \o rest.ran]

\* A mutant of _apply_migrations: the ledger is not consulted.
_apply_migrations_all(conn, dir) ==
    LET ledger == IF IsSome(conn.schema_migrations) THEN conn
                  ELSE [conn EXCEPT !.schema_migrations = Some({})]
    IN  apply_pending(ledger, {}, _load_migration_versions(dir))

\* persistence._apply_migrations: [conn, ran], ran the versions applied, in order
_apply_migrations(conn, dir) ==
    LET ledger == IF IsSome(conn.schema_migrations) THEN conn
                  ELSE [conn EXCEPT !.schema_migrations = Some({})]
        applied == Get(ledger.schema_migrations)
    IN  apply_pending(ledger, applied, _load_migration_versions(dir))

\* persistence._connect
_connect(file, dir) == _apply_migrations(file, dir)

\* SELECT ... FROM pb WHERE track = ? AND car = ?
select_pb(conn, track, car) ==
    { row \in Get(conn.pb) : row.track = track /\ row.car = car }

\* cur.fetchone()
fetchone(rows) == IF rows = {} THEN None ELSE Some(CHOOSE row \in rows : TRUE)

\* persistence._parse_row
_parse_row(row) ==
    PersonalBestRecordAt(row.track, row.car, row.laptime_ms,
                         as_utc(fromisoformat(row.date)))

\* persistence.load_personal_best on the file: [db, ran, raised, record]
store_load_personal_best(file, dir, track, car) ==
    LET opened == _connect(file, dir)
        conn == opened.conn
    IN  IF ~IsSome(conn.pb)
        THEN [db |-> conn, ran |-> opened.ran, raised |-> Some("OperationalError"),
              record |-> None]
        ELSE LET row == fetchone(select_pb(conn, track, car)) IN
             [db |-> conn, ran |-> opened.ran, raised |-> None,
              record |-> IF IsSome(row) THEN Some(_parse_row(Get(row))) ELSE None]

\* A mutant of record_lap: a lap equal to the stored one replaces it.
store_record_lap_or_equal(file, dir, track, car, laptime_ms, timestamp, now) ==
    IF laptime_ms < 0
    THEN [db |-> file, ran |-> <<>>, raised |-> Some("ValueError"), record |-> None,
          improved |-> FALSE]
    ELSE
    LET opened == _connect(file, dir)
        conn == opened.conn
        stamp == as_utc(IF IsSome(timestamp) THEN Get(timestamp) ELSE now)
        existing == fetchone(select_pb(conn, track, car))
    IN  IF ~IsSome(existing) \/ laptime_ms <= Get(existing).laptime_ms
        THEN [db |-> [conn EXCEPT !.pb =
                         Some((Get(@) \ select_pb(conn, track, car))
                              \cup {PbRow(track, car, laptime_ms, isoformat(stamp))})],
              ran |-> opened.ran, raised |-> None,
              record |-> Some(PersonalBestRecordAt(track, car, laptime_ms, stamp)),
              improved |-> TRUE]
        ELSE [db |-> conn, ran |-> opened.ran, raised |-> None,
              record |-> Some(_parse_row(Get(existing))), improved |-> FALSE]

\* A mutant of record_lap: every lap is stored, whatever the stored one.
store_record_lap_latest(file, dir, track, car, laptime_ms, timestamp, now) ==
    IF laptime_ms < 0
    THEN [db |-> file, ran |-> <<>>, raised |-> Some("ValueError"), record |-> None,
          improved |-> FALSE]
    ELSE
    LET opened == _connect(file, dir)
        conn == opened.conn
        stamp == as_utc(IF IsSome(timestamp) THEN Get(timestamp) ELSE now)
    IN  [db |-> [conn EXCEPT !.pb =
                    Some((Get(@) \ select_pb(conn, track, car))
                         \cup {PbRow(track, car, laptime_ms, isoformat(stamp))})],
         ran |-> opened.ran, raised |-> None,
         record |-> Some(PersonalBestRecordAt(track, car, laptime_ms, stamp)),
         improved |-> TRUE]

\* persistence.record_lap on the file: [db, ran, raised, record, improved]
store_record_lap(file, dir, track, car, laptime_ms, timestamp, now) ==
    IF laptime_ms < 0
    THEN [db |-> file, ran |-> <<>>, raised |-> Some("ValueError"), record |-> None,
          improved |-> FALSE]
    ELSE
    LET opened == _connect(file, dir)
        conn == opened.conn
        stamp == as_utc(IF IsSome(timestamp) THEN Get(timestamp) ELSE now)
    IN  IF ~IsSome(conn.pb)
        THEN [db |-> conn, ran |-> opened.ran, raised |-> Some("OperationalError"),
              record |-> None, improved |-> FALSE]
        ELSE
        LET existing == fetchone(select_pb(conn, track, car)) IN
        IF ~IsSome(existing) \/ laptime_ms < Get(existing).laptime_ms
        THEN [db |-> [conn EXCEPT !.pb =
                         Some((Get(@) \ select_pb(conn, track, car))
                              \cup {PbRow(track, car, laptime_ms, isoformat(stamp))})],
              ran |-> opened.ran, raised |-> None,
              record |-> Some(PersonalBestRecordAt(track, car, laptime_ms, stamp)),
              improved |-> TRUE]
        ELSE [db |-> conn, ran |-> opened.ran, raised |-> None,
              record |-> Some(_parse_row(Get(existing))), improved |-> FALSE]

\* the store before its first call, the file not yet created
StoreIdle ==
    /\ db = EmptyFile
    /\ migrations_dir = {V0001_initial}
    /\ store_last = [n |-> 0, op |-> "init"]
    /\ recorded = EmptyDict

---------------------------------------------------------------------------
(* The OutSim client, outsim_client.py:17-198.  An IPv4 address is its four  *)
(* octets.  An entry of allowed_sources is the text read as blank, as an     *)
(* IPv4 address with or without a prefix length, or as an IPv6 address.      *)
(* A datagram is [addr, len, time_ms]: the source address, the number of     *)
(* bytes and the u32 at offset 0.                                            *)

\* _OUTSIM_STRUCT.size
OUTSIM_SIZE == 64

\* the default of buffer_size
DefaultBufferSize == 256

\* 2^n for n in 0..8
Pow2(n) == IF n = 0 THEN 1 ELSE IF n = 1 THEN 2 ELSE IF n = 2 THEN 4
           ELSE IF n = 3 THEN 8 ELSE IF n = 4 THEN 16 ELSE IF n = 5 THEN 32
           ELSE IF n = 6 THEN 64 ELSE IF n = 7 THEN 128 ELSE 256

\* address & netmask for a netmask of prefixlen bits
Masked(address, prefixlen) ==
    [i \in 1..4 |->
        LET kept == Max(0, Min(8, prefixlen - 8 * (i - 1))) IN
        (address[i] \div Pow2(8 - kept)) * Pow2(8 - kept)]

\* ipaddress.ip_network(text, strict=False)
ip_network(text) ==
    IF text.kind = "v4"
    THEN LET prefixlen == IF IsSome(text.prefix) THEN Get(text.prefix) ELSE 32 IN
         [version |-> 4, network_address |-> Masked(text.address, prefixlen),
          prefixlen |-> prefixlen]
    ELSE [version |-> 6, network_address |-> text.address, prefixlen |-> 128]

\* OutSimClient._normalise_allowed_sources
RECURSIVE _normalise_allowed_sources(_)
_normalise_allowed_sources(allowed_sources) ==
    IF allowed_sources = <<>> THEN <<>>
    ELSE LET entry == Head(allowed_sources)
             rest == _normalise_allowed_sources(Tail(allowed_sources))
         IN  IF entry.kind = "blank" THEN rest ELSE <<ip_network(entry)>> \o rest

\* OutSimClient.__init__ running to its end, the socket not yet bound
OutSimClient(buffer_size, timeout, allowed_sources) ==
    [_sock |-> FALSE,
     _buffer_size |-> buffer_size,
     _timeout |-> timeout,
     _allowed_source_strings |->
         IF IsSome(allowed_sources) /\ Get(allowed_sources) # <<>>
         THEN allowed_sources ELSE None,
     _allowed_networks |->
         IF IsSome(allowed_sources) /\ Get(allowed_sources) # <<>>
         THEN Some(_normalise_allowed_sources(Get(allowed_sources))) ELSE None]

\* `ip_obj in network`
InNetwork(address, network) ==
    /\ network.version = 4
    /\ Masked(address, network.prefixlen) = network.network_address

\* A mutant of _is_source_allowed: a source outside the networks passes.
_is_source_allowed_any(self, source_ip) == TRUE

\* OutSimClient._is_source_allowed for the address recvfrom reports
_is_source_allowed(self, source_ip) ==
    IF ~IsSome(self._allowed_networks) THEN TRUE
    ELSE \E i \in DOMAIN Get(self._allowed_networks) :
             InNetwork(source_ip, Get(self._allowed_networks)[i])

\* OutSimFrame.from_packet on the bytes recvfrom returned: the frame's
\* time_ms, or None for the ValueError of a packet that is too small
from_packet(len, time_ms) == IF len < OUTSIM_SIZE THEN None ELSE Some(time_ms)

\* the call OutSimClient(port, **keywords): [raised, self].  A keyword is None
\* when the call does not pass it and Some(its value) when it does.  The
\* signature, lines 105-112, has no max_packets_per_second; an entry of
\* allowed_sources that is no address raises the ValueError of line 141.
OutSimClient_call(keywords) ==
    LET sources == IF IsSome(keywords.allowed_sources)
                   THEN Get(keywords.allowed_sources) ELSE None
        period == IF IsSome(keywords.timeout) THEN Get(keywords.timeout) ELSE None
    IN  IF IsSome(keywords.max_packets_per_second)
        THEN [raised |-> Some("TypeError"), self |-> None]
        ELSE IF /\ IsSome(sources)
                /\ \E i \in DOMAIN Get(sources) : Get(sources)[i].kind = "invalid"
        THEN [raised |-> Some("ValueError"), self |-> None]
        ELSE [raised |-> None,
              self |-> Some(OutSimClient(DefaultBufferSize, period, sources))]

\* no OutSimClient constructed yet: no socket, no generator
OutSimIdle ==
    /\ outsim_call = None
    /\ outsim = OutSimClient(DefaultBufferSize, None, None)
    /\ frames_pc = "new"
    /\ received = <<>>
    /\ yielded = <<>>

SessionState ==
    [lap_state |-> lap_state, tracked_plid |-> tracked_plid,
     tracked_driver |-> tracked_driver, current_track |-> current_track,
     current_car |-> current_car, persistent_best |-> persistent_best,
     last_frame_time_ms |-> last_frame_time_ms,
     pending_lap_start |-> pending_lap_start, current_mode |-> current_mode,
     mode_settings |-> mode_settings, radar_enabled |-> radar_enabled,
     beep_enabled |-> beep_enabled, telemetry_server |-> telemetry_server,
     hud |-> hud, pb |-> pb, record_calls |-> record_calls]

SetSessionState(s) ==
    /\ lap_state' = s.lap_state
    /\ tracked_plid' = s.tracked_plid
    /\ tracked_driver' = s.tracked_driver
    /\ current_track' = s.current_track
    /\ current_car' = s.current_car
    /\ persistent_best' = s.persistent_best
    /\ last_frame_time_ms' = s.last_frame_time_ms
    /\ pending_lap_start' = s.pending_lap_start
    /\ current_mode' = s.current_mode
    /\ mode_settings' = s.mode_settings
    /\ radar_enabled' = s.radar_enabled
    /\ beep_enabled' = s.beep_enabled
    /\ telemetry_server' = s.telemetry_server
    /\ hud' = s.hud
    /\ pb' = s.pb
    /\ record_calls' = s.record_calls

\* lap_state as main() creates it, lines 384-391
FreshLapState ==
    [current_lap_start_ms |-> None, best_lap_ms |-> None,
     current_split_times |-> EmptyDict, last_lap_split_fractions |-> <<>>,
     pb_split_fractions |-> <<>>, latest_estimated_total_ms |-> None]

\* ModeConfig of sp and mp with the defaults of AppConfig.from_dict
DefaultModeSettings ==
    [sp |-> [radar_enabled |-> TRUE, beeps_enabled |-> TRUE],
     mp |-> [radar_enabled |-> TRUE, beeps_enabled |-> FALSE]]

\* a TelemetryBroadcaster as apply_telemetry_config creates it
FreshServer == [track |-> None, car |-> None, focus_plid |-> None]

\* the frame loop before its first iteration, line 818
LoopIdle ==
    /\ pc = "frame"
    /\ frame = None
    /\ player_lap = None
    /\ drawn = None

\* TelemetryBroadcaster.__init__, lines 103-111: the fields _lock guards
TelemetryBroadcaster ==
    [_latest_frame |-> None,
     _latest_cars |-> <<>>,
     _focus_plid |-> None,
     _track |-> None,
     _car |-> None,
     _player_lap_progress |-> None,
     _player_current_lap_ms |-> None,
     _player_reference_lap_ms |-> None,
     _player_delta_ms |-> None]

\* one assignment `self.<field> = value`
Assign(field, value) == [field |-> field, value |-> value]

\* the update methods, lines 147-178: whether the body runs under
\* `with self._lock` and the assignments it makes, in order
ws_update_outsim(outsim_frame) ==
    [locked |-> TRUE, writes |-> <<Assign("_latest_frame", Some(outsim_frame))>>]

ws_update_mci(event) ==
    [locked |-> TRUE,
     writes |-> <<Assign("_latest_cars", event.cars)>> \o
                (IF IsSome(event.view_plid)
                 THEN <<Assign("_focus_plid", event.view_plid)>> ELSE <<>>)]

ws_set_focus_plid(plid) ==
    [locked |-> TRUE, writes |-> <<Assign("_focus_plid", plid)>>]

ws_update_track_context_unlocked(track, car) ==
    [locked |-> FALSE,
     writes |-> <<Assign("_track", track), Assign("_car", car)>>]

ws_update_track_context(track, car) ==
    [locked |-> TRUE,
     writes |-> <<Assign("_track", track), Assign("_car", car)>>]

ws_update_player_lap_unlocked(progress, current_lap_ms, reference_lap_ms, delta_ms) ==
    [locked |-> FALSE,
     writes |-> <<Assign("_player_lap_progress", progress),
                  Assign("_player_current_lap_ms", current_lap_ms),
                  Assign("_player_reference_lap_ms", reference_lap_ms),
                  Assign("_player_delta_ms", delta_ms)>>]

ws_update_player_lap(progress, current_lap_ms, reference_lap_ms, delta_ms) ==
    [locked |-> TRUE,
     writes |-> <<Assign("_player_lap_progress", progress),
                  Assign("_player_current_lap_ms", current_lap_ms),
                  Assign("_player_reference_lap_ms", reference_lap_ms),
                  Assign("_player_delta_ms", delta_ms)>>]

\* _build_snapshot, lines 286-295: the fields read under the lock, in order
_build_snapshot_reads ==
    <<"_latest_frame", "_latest_cars", "_focus_plid", "_track", "_car",
      "_player_lap_progress", "_player_current_lap_ms",
      "_player_reference_lap_ms", "_player_delta_ms">>

\* _build_snapshot, lines 297-298: nothing to send yet
NothingToSend(local) == local._latest_frame = None /\ local._latest_cars = <<>>

\* the thread names: two callers of the update methods and the loop thread
WriterThreads == {"main", "other"}
LoopThread == "telemetry-ws"

SnapshotIdle ==
    /\ broadcaster = TelemetryBroadcaster
    /\ _lock = None
    /\ writer_pc = [thread \in WriterThreads |-> [at |-> "idle"]]
    /\ snap_pc = [at |-> "sleep", next |-> 1, local |-> TelemetryBroadcaster]
    /\ snap_hist = [calls |-> 0, laps |-> {}, contexts |-> {}, built |-> 0,
                    snapshot |-> None]

\* the connections a server may accept
Conns == {"a", "b"}

\* headers.get("sec-websocket-key") of a complete request, lines 244-245
sec_websocket_key(request) == request.key

\* `if not key`, line 246: the header is missing or empty
NoKey(key) == key = None \/ key = Some("")

\* a connection nobody has made yet, and its writer
NoConnection ==
    [handler |-> "none", request |-> None, answered |-> FALSE, closed |-> FALSE,
     written |-> <<>>, raised |-> None, stalled |-> FALSE]

\* _broadcast_loop lines 226-227: the writer whose write or drain raised is
\* remembered and the loop goes on with the next writer
_broadcast_loop_except_break(task, writer) ==
    [task EXCEPT !.at = "iterate", !.stale = Append(@, writer), !.pending = {}]

_broadcast_loop_except(task, writer) ==
    [task EXCEPT !.at = "iterate", !.stale = Append(@, writer)]

ClientsIdle ==
    /\ _clients = {}
    /\ connection = [c \in Conns |-> NoConnection]
    /\ broadcast_pc = [at |-> "sleep", n |-> 0, clients |-> {}, pending |-> {},
                       stale |-> <<>>, writer |-> None, missed |-> 0]

\* _request_shutdown, lines 208-210, applied to _shutdown_future
_request_shutdown(future) ==
    IF IsSome(future) /\ Get(future) # "done" THEN Some("done") ELSE future

\* the broadcaster when start() has returned, lines 121-137: a new loop, the
\* thread started and not yet at line 129, nobody in stop()
ShutdownIdle ==
    /\ event_loop = [ref |-> Some("loop"), closed |-> FALSE, ready |-> <<>>]
    /\ runner = [thread |-> "new", run |-> "new", _shutdown_future |-> None,
                 _server |-> None, _broadcast_task |-> None, writers |-> "none",
                 raised |-> None, lost |-> FALSE]
    /\ stopper = [at |-> "idle", loop |-> None, calls |-> 0, _thread |-> TRUE,
                  raised |-> None]

BroadcastIdle == SnapshotIdle /\ ClientsIdle /\ ShutdownIdle

\* raw.get(key, default) of a key that may be absent
GetOr(value, default) == IF IsSome(value) THEN Get(value) ELSE default

\* TelemetryConfig with the defaults of the dataclass, main lines 69-74
TelemetryConfig(enabled, host, port, update_hz) ==
    [enabled |-> enabled, host |-> host, port |-> port, update_hz |-> update_hz]

\* A mutant of from_dict: no value is validated.
from_dict_unvalidated(raw) ==
    Some([outsim_rate_limit |-> raw.max_packets_per_second,
          telemetry |-> TelemetryConfig(GetOr(raw.telemetry_enabled, TRUE), "127.0.0.1",
                                        GetOr(raw.telemetry_port, 30333),
                                        GetOr(raw.telemetry_update_hz, 15)),
          sp |-> [radar_enabled |-> GetOr(raw.sp_radar_enabled, TRUE),
                  beeps_enabled |-> GetOr(raw.sp_beeps_enabled, TRUE)],
          mp |-> [radar_enabled |-> GetOr(raw.mp_radar_enabled, TRUE),
                  beeps_enabled |-> GetOr(raw.mp_beeps_enabled, FALSE)]])

\* AppConfig.from_dict, lines 97-220, for the keys of the model: None when it
\* raises ValueError, else the configuration
from_dict(raw) ==
    IF IsSome(raw.max_packets_per_second) /\ Get(raw.max_packets_per_second) <= 0
    THEN None
    ELSE IF GetOr(raw.telemetry_update_hz, 15) <= 0
    THEN None
    ELSE Some([outsim_rate_limit |-> raw.max_packets_per_second,
               telemetry |-> TelemetryConfig(GetOr(raw.telemetry_enabled, TRUE),
                                             "127.0.0.1",
                                             GetOr(raw.telemetry_port, 30333),
                                             GetOr(raw.telemetry_update_hz, 15)),
               sp |-> [radar_enabled |-> GetOr(raw.sp_radar_enabled, TRUE),
                       beeps_enabled |-> GetOr(raw.sp_beeps_enabled, TRUE)],
               mp |-> [radar_enabled |-> GetOr(raw.mp_radar_enabled, TRUE),
                       beeps_enabled |-> GetOr(raw.mp_beeps_enabled, FALSE)]])

\* load_config and from_dict, watch_config lines 686-690: None when either
\* raises
load_and_parse(file) == IF file.parses THEN from_dict(file.raw) ELSE None

\* TelemetryBroadcaster.start and stop seen from the caller: a thread that
\* has not begun _run loses the request of stop (lines 139-145, 208-210),
\* one that serves ends
ws_start(settings) == [settings |-> settings, thread |-> "new", stop_called |-> FALSE]
ws_stop(server) ==
    [server EXCEPT !.stop_called = TRUE,
                   !.thread = IF @ = "serving" THEN "exited" ELSE @]

\* main.apply_telemetry_config, lines 347-380, on telemetry_server,
\* active_telemetry_config and the broadcasters made so far, of which
\* telemetry_server is the last
apply_telemetry_config(a, settings) ==
    LET n == Len(a.broadcasters)
        stopped == IF IsSome(a.telemetry_server)
                   THEN [a EXCEPT !.telemetry_server = None,
                                  !.broadcasters[n] = ws_stop(@)]
                   ELSE a
    IN  IF a.active_telemetry_config = Some(settings) /\ IsSome(a.telemetry_server)
        THEN a
        ELSE IF ~settings.enabled
        THEN [stopped EXCEPT !.active_telemetry_config = Some(settings)]
        ELSE [stopped EXCEPT !.telemetry_server = Some(FreshServer),
                             !.broadcasters = Append(@, ws_start(settings)),
                             !.active_telemetry_config = Some(settings)]

\* config.json without any key, and main after its start with it: lines
\* 336-382 and 664-668
NoKeys ==
    [max_packets_per_second |-> None, telemetry_enabled |-> None,
     telemetry_port |-> None, telemetry_update_hz |-> None,
     sp_radar_enabled |-> None, sp_beeps_enabled |-> None,
     mp_radar_enabled |-> None, mp_beeps_enabled |-> None]

ReloadIdle ==
    /\ config_file = [exists |-> TRUE, mtime |-> 1, parses |-> TRUE, raw |-> NoKeys]
    /\ last_mtime = Some(1)
    /\ config = [outsim_rate_limit |-> Get(from_dict(NoKeys)).outsim_rate_limit,
                 telemetry |-> Get(from_dict(NoKeys)).telemetry]
    /\ active_telemetry_config = Some(Get(from_dict(NoKeys)).telemetry)
    /\ broadcasters = <<ws_start(Get(from_dict(NoKeys)).telemetry)>>
    /\ reload_last = [outcome |-> "none"]

\* no call of _apply_migrations is under way, on a file just created
MigrateIdle ==
    migration = [file |-> EmptyFile, tx |-> None, at |-> "idle", applied |-> {},
                 paths |-> <<>>, connects |-> 0]

\* BeepConfig as update_config compares it: the volume and the base frequency
\* stay at their defaults
BeepConfig(intervals_ms) == [mode |-> "standard", intervals_ms |-> intervals_ms]

\* BeepSubsystem.__init__, lines 229-241, without _enabled
BeepSubsystem(c) ==
    LET intervals == IF c.intervals_ms = <<>> THEN <<400>> ELSE c.intervals_ms IN
    [_config |-> BeepConfig(intervals), _interval_pattern |-> intervals,
     _next_interval_index |-> 0, _next_beep_time_ms |-> None]

\* the patterns of beep.intervals_ms in config.json
BeepPatterns == { <<400, 300, 200>>, <<400>> }

\* both threads between two operations, nobody in config_lock
ThreadIdle ==
    /\ config_lock = "free"
    /\ main_thread = [at |-> "loop", frames |-> 0, time_ms |-> 0, event |-> None,
                      handled |-> None, p |-> <<>>, i |-> 0, n |-> 0]
    /\ watcher_thread = [at |-> "wait", reloads |-> 0, new_config |-> None,
                         beep |-> None]
    /\ beep_system = BeepSubsystem(BeepConfig(<<400, 300, 200>>))
    /\ beep_calls = [raised |-> "none", plays |-> 0, played_disabled |-> FALSE]

\* the frame loop runs: the HUD is shown (line 815), the watcher waits
ExitIdle ==
    /\ stop_event = FALSE
    /\ exit_state = [cause |-> "none", connected |-> TRUE, _visible |-> TRUE,
                     hud |-> FALSE]

LateIdle == MigrateIdle /\ ThreadIdle /\ ExitIdle

\* what lies outside the InSim client and the session variables, at rest
MoreIdle == BroadcastIdle /\ ReloadIdle /\ LateIdle

AuxIdle == LoopIdle /\ StoreIdle /\ OutSimIdle /\ MoreIdle

\* the session state when main() enters the frame loop, with the rows `rows`
\* in table pb and `server` as telemetry_server
SessionEntered(rows, server) ==
    /\ lap_state = FreshLapState
    /\ tracked_plid = None
    /\ tracked_driver = None
    /\ current_track = None
    /\ current_car = None
    /\ persistent_best = None
    /\ last_frame_time_ms = None
    /\ pending_lap_start = FALSE
    /\ current_mode = "sp"
    /\ mode_settings = DefaultModeSettings
    /\ radar_enabled = DefaultModeSettings.sp.radar_enabled
    /\ beep_enabled = DefaultModeSettings.sp.beeps_enabled
    /\ telemetry_server = server
    /\ hud = HUDController_show(DefaultModeSettings.sp.radar_enabled,
                                DefaultModeSettings.sp.beeps_enabled)
    /\ pb = rows
    /\ record_calls = <<>>
    /\ slast = [op |-> "init", event |-> None, pre |-> None]
    /\ scenario = [step |-> 0, calls |-> <<>>]

\* the same with everything outside the session at rest
SessionStart(rows, server) == AuxIdle /\ SessionEntered(rows, server)

SessionIdle == SessionStart(EmptyDict, Some(FreshServer))

---------------------------------------------------------------------------
(* Spec: the framer fed with chunks of bytes *)

MaxArrivals == 3

BufferLimits == {0, 12}

BTC8 == <<8, ISP_BTC, 0, 0, 200, 0, 1, 0>>

Chunks ==
    { <<4, 200, 0, 0>>,          \* an unknown packet type
      BTC8,                      \* a complete IS_BTC packet (a click on button 200)
      <<4, ISP_MCI, 0, 0>>,      \* a complete IS_MCI packet without cars
      <<3, ISP_BTC>>,            \* a header whose size is below 4
      <<6, ISP_ISI>>,            \* the header of a 6-byte packet
      Take(BTC8, 3),             \* an IS_BTC packet read in two parts
      Drop(BTC8, 3),
      \* test_buffer_limit_preserves_latest_packet_after_overflow
      <<4, 1, 0, 0>> \o <<4, 200, 0, 0>> \o <<8, ISP_BTC, 0, 0, 0, 0, 0, 0>> }

\* _append_to_buffer called with a chunk read from the socket
AppendToBuffer ==
    /\ _sock
    /\ arrivals < MaxArrivals
    /\ arrivals' = arrivals + 1
    /\ \E c \in Chunks : AppendData(c)
    /\ UNCHANGED wire

\* poll: the socket is readable and recv returns a chunk
Poll ==
    /\ _sock
    /\ arrivals < MaxArrivals
    /\ arrivals' = arrivals + 1
    /\ \E c \in Chunks : PollData(c)
    /\ UNCHANGED wire

\* _process_buffer called directly, as the tests do after _append_to_buffer
ProcessBuffer ==
    /\ _sock
    /\ ProcessData
    /\ UNCHANGED <<wire, arrivals>>

\* the client after __init__ with buffer_limit = limit and connect
ClientStart(limit) ==
    /\ _buffer = <<>>
    /\ _buffer_limit = limit
    /\ _sock = TRUE
    /\ _plid_to_car = EmptyDict
    /\ _current_track = None
    /\ _current_car = None
    /\ _view_plid = None
    /\ _last_flags2 = 0
    /\ wire = <<>>
    /\ stream = <<>>
    /\ reads = <<>>
    /\ delivered = <<>>
    /\ dispatched = <<>>
    /\ sta_seen = None
    /\ last = Last("init")
    /\ arrivals = 0

Init ==
    /\ \E limit \in BufferLimits : ClientStart(limit)
    /\ SessionIdle

Next ==
    \/ AppendToBuffer
    \/ ProcessBuffer
    \/ Poll
    \/ PollEof
    \/ Connect

Spec == Init /\ [][Next]_vars


---------------------------------------------------------------------------
(* Packets, built as the tests build them (bytearray, struct.pack_into) *)

\* bytearray(n)
Zeros(n) == [i \in 1..n |-> 0]

\* struct.pack("<H", n) and struct.pack("<i", n) / struct.pack("<I", n)
LE16(n) == <<n % 256, (n \div 256) % 256>>
LE32(n) ==
    <<n % 256, (n \div 256) % 256, (n \div 65536) % 256, (n \div 16777216) % 256>>

\* packet[offset : offset + len(bs)] = bs
PutAt(packet, offset, bs) ==
    [i \in 1..Len(packet) |->
        IF i > offset /\ i <= offset + Len(bs) THEN bs[i - offset] ELSE packet[i]]

\* `length` zero bytes with the size and type bytes set
Packet(size, packet_type, length) ==
    PutAt(Zeros(length), 0, Take(<<size, packet_type>>, length))

\* the strings of the tests, as sequences of character codes
BL1 == <<66, 76, 49>>
SO1 == <<83, 79, 49>>
XFG == <<88, 70, 71>>
FXO == <<70, 88, 79>>
Driver == <<68, 114, 105, 118, 101, 114>>

\* _build_sta_packet(view_plid, track_code, flags2=flags2)
StaPacket(view_plid, track_code, flags2) ==
    PutAt(PutAt(PutAt(Packet(28, ISP_STA, 28), 10, <<view_plid % 256>>),
                16, LE16(flags2 % 65536)),
          20, Take(track_code \o Zeros(6), 6))

\* the 76-byte IS_NPL packet of test_handle_is_npl_populates_car_mapping
NplPacket(plid, car) ==
    PutAt(PutAt(Packet(76, ISP_NPL, 76), 3, <<plid>>), 40, car)

\* the IS_LAP / IS_SPX packet of test_lap_events_inherit_track_and_car_context
TimingPacket(size, packet_type, plid, time_ms, estimate_ms, name) ==
    PutAt(PutAt(PutAt(Packet(size, packet_type, size), 3, <<plid>>),
                4, LE32(time_ms) \o LE32(estimate_ms)),
          18, name \o <<0>>)

LAP64 == TimingPacket(64, ISP_LAP, 5, 73000, 74000, Driver)
SPX64 == TimingPacket(64, ISP_SPX, 5, 12000, 13000, Driver)

\* the entry of test_handle_packet_accepts_mci_with_wrapped_header,
\* struct.pack("<HHBBBBiiiHHHh", 12, 3, 7, 1, 0, 0, 100, 200, -300, 400, 500, 600, -50)
MciEntry ==
    LE16(12) \o LE16(3) \o <<7, 1, 0, 0>> \o LE32(100) \o LE32(200) \o LE32(-300)
    \o LE16(400) \o LE16(500) \o LE16(600) \o LE16(-50)

\* an IS_MCI packet with one entry and the given size byte
MciPacket(size) == <<size, ISP_MCI, 0, 1>> \o MciEntry

---------------------------------------------------------------------------
(* SpecResync: a corrupted 2-byte header followed by a valid packet arrives *)
(* on a connection in the state of test_corrupted_size_header_is_skipped.   *)

\* headers of a known type whose size is invalid for the type
CorruptHeaders ==
    { <<200, ISP_LAP>>, <<3, ISP_LAP>>, <<0, ISP_LAP>>, <<3, ISP_BTC>>,
      <<13, ISP_BTC>>, <<29, ISP_STA>>, <<3, ISP_MCI>> }

ValidPackets == { LAP64, StaPacket(0, BL1, 0), BTC8, SPX64 }

\* the chunk sizes recv returns
ReadSizes == {16, RecvSize}

\* _append_to_buffer with the next bytes of the wire
RecvAppend ==
    /\ _sock /\ wire # <<>>
    /\ \E n \in ReadSizes :
          /\ AppendData(Take(wire, n))
          /\ wire' = Drop(wire, Min(n, Len(wire)))
    /\ UNCHANGED arrivals

\* poll with the next bytes of the wire
RecvPoll ==
    /\ _sock /\ wire # <<>>
    /\ \E n \in ReadSizes :
          /\ PollData(Take(wire, n))
          /\ wire' = Drop(wire, Min(n, Len(wire)))
    /\ UNCHANGED arrivals

InitResync ==
    /\ _buffer = <<>>
    /\ _buffer_limit = DefaultBufferLimit
    /\ _sock = TRUE
    /\ _plid_to_car = DictSet(EmptyDict, 5, XFG)
    /\ _current_track = Some(BL1)
    /\ _current_car = None
    /\ _view_plid = None
    /\ _last_flags2 = 0
    /\ wire \in { h \o packet : h \in CorruptHeaders, packet \in ValidPackets }
    /\ stream = <<>>
    /\ reads = <<>>
    /\ delivered = <<>>
    /\ dispatched = <<>>
    /\ sta_seen = None
    /\ last = Last("init")
    /\ arrivals = 0
    /\ SessionIdle

NextResync ==
    \/ RecvAppend
    \/ ProcessBuffer
    \/ RecvPoll
    \/ PollEof

SpecResync == InitResync /\ [][NextResync]_vars

\* the bytes are a 2-byte header of a known type with an invalid size, followed
\* by exactly one complete valid packet of a known type
CorruptHeaderThenPacket(bs) ==
    /\ Len(bs) > 2 + 2
    /\ bs[2] \in _KNOWN_PACKET_TYPES
    /\ ~validate_header(bs[1], bs[2])
    /\ bs[2 + 2] \in _KNOWN_PACKET_TYPES
    /\ bs[2 + 1] = Len(bs) - 2
    /\ validate(Drop(bs, 2))

HeaderDiscards(log) == { i \in 1..Len(log) : log[i].kind = "header" }

\* C2: when _process_buffer finds an invalid header of a known type followed by
\* a complete valid packet, every failed header validation discards 1 or 2
\* bytes, only the 2 header bytes are lost, and the packet that follows is
\* delivered as exactly one event (the LapEvent of the scenario has track BL1,
\* car XFG and lap_time_ms 73000).
C2_OnlyHeaderDiscarded ==
    (last.op \in {"process", "poll"} /\ CorruptHeaderThenPacket(Bytes(last.inbuf))) =>
        /\ \A i \in HeaderDiscards(last.log) : last.log[i].n \in {1, 2}
        /\ last.packets = <<Drop(last.inbuf, 2)>>
        /\ Len(last.events) = 1
        /\ Bytes(Drop(last.inbuf, 2)) = LAP64 =>
              /\ last.events[1].ev.kind = "lap"
              /\ last.events[1].ev.track = Some(BL1)
              /\ last.events[1].ev.car = Some(XFG)
              /\ last.events[1].ev.lap_time_ms = 73000

\* one iteration of the loop of _discard_until_valid_header on `buf` either
\* returns or leaves fewer bytes
IterationShortens(buf, limit, require_complete) ==
    LET offset == _scan_for_valid_packet_start(buf, limit, require_complete) IN
    /\ offset > 0 => Len(Drop(buf, offset)) < Len(buf)
    /\ (offset = 0 /\ Len(buf) >= 2 /\ ~validate_header(buf[1].b, buf[2].b)) =>
           Len(Drop(buf, header_discard(buf))) < Len(buf)

\* the bytes of `packets` together
RECURSIVE TotalLen(_)
TotalLen(packets) ==
    IF packets = <<>> THEN 0 ELSE Len(Head(packets)) + TotalLen(Tail(packets))

\* two bytes whose first, read as a size, is below 4, followed by exactly one
\* complete valid packet of a known type
SmallSizeThenPacket(bs) ==
    /\ Len(bs) > 2 + 2
    /\ bs[1] < 4
    /\ bs[2 + 2] \in _KNOWN_PACKET_TYPES
    /\ bs[2 + 1] = Len(bs) - 2
    /\ validate(Drop(bs, 2))

\* C37: the loops of the framer end: an iteration of
\* _discard_until_valid_header returns or shortens the buffer, from whatever
\* offset of the buffer it starts, and _process_buffer hands on and leaves no
\* more bytes than it found; and bytes with a size field below 4 do not keep
\* the complete valid packet behind them from being handed on by the call.
C37_FramerTerminates ==
    last.op \in {"process", "poll"} =>
        /\ \A k \in 0..Len(last.inbuf), require_complete \in BOOLEAN :
               IterationShortens(Drop(last.inbuf, k), _buffer_limit, require_complete)
        /\ Len(_buffer) + TotalLen(last.packets) <= Len(last.inbuf)
        /\ SmallSizeThenPacket(Bytes(last.inbuf)) =>
               last.packets = <<Drop(last.inbuf, 2)>>

\* every header validate_header accepts, on a packet at least as long as its
\* size byte, passes validate: the bounds of _size_bounds imply the schema
\* (the types without bounds and schema are all alike: 0 and 255 stand for them)
HeaderImpliesSchema ==
    \A size \in 0..255, packet_type \in _KNOWN_PACKET_TYPES \cup {0, 255},
       extra \in 0..1 :
        validate_header(size, packet_type) =>
            validate(Packet(size, packet_type, size + extra))

\* C38: every packet the framer hands to _handle_packet has a known type, a
\* size byte of at least 4 that validate_header accepts and as many bytes as
\* its size byte says, and passes validate; and validate_header with a
\* sufficient length implies validate for every type and size.
C38_FramedPacketsValidate ==
    /\ HeaderImpliesSchema
    /\ last.op \in {"process", "poll"} =>
           \A i \in 1..Len(last.packets) :
               LET packet == Bytes(last.packets[i]) IN
               /\ Len(packet) >= 4
               /\ packet[2] \in _KNOWN_PACKET_TYPES
               /\ validate_header(packet[1], packet[2])
               /\ Len(packet) = packet[1]
               /\ validate(packet)

\* C38 witness: the framer handed on a packet of a type that has a schema
C38_Witness ==
    /\ last.op \in {"process", "poll"}
    /\ \E i \in 1..Len(last.packets) :
           /\ Bytes(last.packets[i])[2] = ISP_BTC
           /\ IsSome(_schemas(ISP_BTC))

---------------------------------------------------------------------------
(* SpecDecoder: packets handed to _handle_packet one by one, as the tests do *)

\* InSimClient._handle_packet(packet) called directly
HandlePacket(packet) ==
    LET h == _handle_packet(DecoderState, packet) IN
    /\ SetDecoderState(h.st)
    /\ sta_seen' = LastSta(sta_seen, <<packet>>)
    /\ last' = [Last("handle") EXCEPT !.data = packet,
                   !.events = [i \in 1..Len(h.events) |-> [at |-> 0, ev |-> h.events[i]]],
                   !.rejected = IF h.rejected THEN 1 ELSE 0,
                   !.st = DecoderState, !.sta = sta_seen]
    /\ UNCHANGED <<framerVars, dispatched, sessionVars, auxVars>>

\* packets that satisfy their schema
GoodPackets ==
    { Packet(20, ISP_VER, 20),
      StaPacket(0, SO1, 0), StaPacket(12, SO1, ISS_MULTI), StaPacket(12, <<>>, 0),
      NplPacket(12, FXO \o <<32>>), NplPacket(5, XFG), NplPacket(12, <<>>),
      LAP64, SPX64, TimingPacket(42, ISP_LAP, 12, 0, 0, Driver),
      BTC8, Packet(4, ISP_MCI, 4), MciPacket(32) }

\* packets of the same types that violate it: each size bound missed by one,
\* and payloads shorter than the size byte
BadPackets ==
    { Packet(19, ISP_VER, 19), Packet(21, ISP_VER, 21), Packet(20, ISP_VER, 10),
      PutAt(StaPacket(12, BL1, ISS_MULTI), 0, <<27>>), Packet(29, ISP_STA, 29),
      PutAt(NplPacket(12, XFG), 0, <<43>>), Packet(121, ISP_NPL, 121),
      Packet(41, ISP_LAP, 41), Packet(97, ISP_LAP, 97), Packet(12, ISP_LAP, 12),
      Take(LAP64, 63),
      Packet(41, ISP_SPX, 41), Packet(97, ISP_SPX, 97),
      Packet(6, ISP_BTC, 6), Packet(13, ISP_BTC, 13), Take(BTC8, 7),
      MciPacket(0) }

HandleGood == \E packet \in GoodPackets : HandlePacket(packet)

HandleBad == \E packet \in BadPackets : HandlePacket(packet)

NextDecoder ==
    \/ HandleGood
    \/ HandleBad
    \/ Connect

SpecDecoder == Init /\ [][NextDecoder]_vars

\* an IS_MCI packet of 4 + 28 * count bytes whose size byte is below its length
WrappedMci(packet) ==
    /\ Len(packet) >= 4
    /\ packet[2] = ISP_MCI
    /\ packet[3 + 1] >= 1
    /\ Len(packet) = 4 + 28 * packet[3 + 1]
    /\ packet[1] < Len(packet)

\* C5: an IS_MCI packet whose size byte is smaller than its real length
\* 4 + 28 * count is not rejected: its entries are dispatched as one
\* MultiCarInfoEvent.
C5_WrappedMciAccepted ==
    (last.op = "handle" /\ WrappedMci(last.data)) =>
        /\ last.rejected = 0
        /\ Len(last.events) = 1
        /\ last.events[1].ev.kind = "mci"
        /\ Len(last.events[1].ev.cars) = last.data[3 + 1]

\* the packet violates the schema of its type, as C6 lists the violations
SchemaViolation(packet) ==
    LET size == packet[1]
        packet_type == packet[2]
    IN  \/ packet_type = ISP_VER /\ size # 20
        \/ packet_type = ISP_STA /\ size # 28
        \/ packet_type = ISP_NPL /\ (size < 44 \/ size > 120)
        \/ packet_type \in {ISP_LAP, ISP_SPX} /\ (size < 42 \/ size > 96)
        \/ packet_type = ISP_BTC /\ (size < 8 \/ size > 12)
        \/ Len(packet) < size

\* C6: a packet of a known type that violates its schema is rejected by
\* _handle_packet: no listener is invoked and the decoder state (track, car,
\* view PLID, PLID-to-car map, last flags2) is left as it was.
C6_RejectedWithoutEffect ==
    (/\ last.op = "handle"
     /\ Len(last.data) >= 2
     /\ last.data[2] \in _KNOWN_PACKET_TYPES
     /\ SchemaViolation(last.data)) =>
        /\ last.rejected = 1
        /\ last.events = <<>>
        /\ DecoderState = last.st

\* C6 witness: the truncated IS_BTC packet of the tests is rejected by a client
\* that has a track, a car and a multiplayer flag to lose
C6_Witness ==
    /\ last.op = "handle"
    /\ last.data = Packet(6, ISP_BTC, 6)
    /\ last.rejected = 1
    /\ _current_track = Some(SO1) /\ _current_car = Some(FXO)
    /\ _last_flags2 = ISS_MULTI

\* C34: an IS_LAP or IS_SPX packet is decoded into an event only when the
\* bytes after its four 1-byte fields, up to its size byte, are 24 or 25.
C34_NameSegmentLength ==
    (/\ last.op = "handle"
     /\ Len(last.data) >= 2
     /\ last.data[2] \in {ISP_LAP, ISP_SPX}
     /\ last.events # <<>>) =>
        last.data[1] - 18 \in {24, 25}

\* C7: a StateEvent emitted for an IS_NPL packet carries the flags2 of the most
\* recent IS_STA packet handled on this connection, and 0 when there was none.
C7_NplKeepsFlags2 ==
    (last.op = "handle" /\ Len(last.data) >= 2 /\ last.data[2] = ISP_NPL) =>
        \A i \in 1..Len(last.events) :
            last.events[i].ev.kind = "state" =>
                last.events[i].ev.flags2 = (IF IsSome(last.sta) THEN Get(last.sta) ELSE 0)

\* C7 witness: an IS_NPL packet after an IS_STA packet with the multiplayer flag
C7_Witness ==
    /\ last.op = "handle" /\ last.data[2] = ISP_NPL
    /\ last.sta = Some(ISS_MULTI)
    /\ Len(last.events) = 1
    /\ last.events[1].ev.flags2 = ISS_MULTI

---------------------------------------------------------------------------
(* Properties of the framer, checked under Spec *)

IsSuffix(s, t) == Len(s) <= Len(t) /\ s = SubSeq(t, Len(t) - Len(s) + 1, Len(t))

\* the buffer begins with a header that validate_header accepts and holds the
\* whole packet the header declares
HeaderValidComplete(buf) ==
    /\ Len(buf) >= 2
    /\ buf[2].b \in _KNOWN_PACKET_TYPES
    /\ validate_header(buf[1].b, buf[2].b)
    /\ buf[1].b <= Len(buf)

\* offset k (0-based) of `buf` looks like the start of a complete packet of a
\* known type
Candidate(buf, k) ==
    /\ k + 2 <= Len(buf)
    /\ buf[k + 1].b >= 4
    /\ buf[k + 2].b \in _KNOWN_PACKET_TYPES
    /\ buf[k + 1].b <= Len(buf) - k

PacketAt(buf, k) == SubSeq(buf, k + 1, k + buf[k + 1].b)

\* a complete packet of a known type that PacketValidator.validate accepts
\* starts at offset k of `buf`
ValidPacketAt(buf, k) == Candidate(buf, k) /\ validate(Bytes(PacketAt(buf, k)))

Delivered(packet) == \E i \in 1..Len(last.packets) : last.packets[i] = packet

\* C1: the buffer never holds more than buffer_limit bytes, whatever chunks
\* were appended and whenever the buffer was processed.
C1_BufferWithinLimit == Len(_buffer) <= _buffer_limit

\* C1 witness: one chunk longer than the limit was appended and bytes were kept
C1_Witness ==
    /\ last.op = "append" /\ last.over
    /\ Len(last.data) > _buffer_limit
    /\ _buffer # <<>>

Overflowed == last.op \in {"append", "poll"} /\ last.over

\* the bytes an append works on: the buffer and the incoming chunk
Incoming == last.pre \o Tag(last.data, Len(stream) - Len(last.data))

\* exactly the oldest existing + incoming - limit bytes are dropped, and the
\* resynchronisation leaves nothing or a header-valid complete packet in front
C3_DropsOldestAndResyncs ==
    Overflowed =>
        /\ Get(last.retained) = Drop(Incoming, Len(Incoming) - _buffer_limit)
        /\ IsSuffix(last.inbuf, Get(last.retained))
        /\ last.inbuf = <<>> \/ HeaderValidComplete(last.inbuf)

\* the limit 12 scenario: only the BTC packet is delivered, the buffer ends empty
OverflowScenario ==
    /\ last.op \in {"process", "poll"} /\ IsSome(last.retained)
    /\ Bytes(Get(last.retained)) = <<4, 200, 0, 0, 8, ISP_BTC, 0, 0, 0, 0, 0, 0>>

C3_Scenario ==
    OverflowScenario =>
        /\ Len(last.packets) = 1
        /\ Bytes(last.packets[1]) = <<8, ISP_BTC, 0, 0, 0, 0, 0, 0>>
        /\ _buffer = <<>>

Contiguous(packet) ==
    \A j \in 1..Len(packet) :
        /\ packet[j].p = packet[1].p + j - 1
        /\ packet[j].p \in 1..Len(stream)
        /\ stream[packet[j].p] = packet[j].b

\* C4: every delivered packet is a contiguous slice of the stream, each packet
\* lies wholly after the one delivered before it (no byte is delivered twice),
\* and the events reach the listeners in the stream order of their packets,
\* however the stream was split into reads.
C4_StreamOrder ==
    /\ \A i \in 1..Len(delivered) : Contiguous(delivered[i])
    /\ \A i \in 1..(Len(delivered) - 1) :
           delivered[i][Len(delivered[i])].p < delivered[i + 1][1].p
    /\ \A i \in 1..(Len(dispatched) - 1) : dispatched[i].at < dispatched[i + 1].at
    /\ \A i \in 1..Len(dispatched) :
           \E k \in 1..Len(delivered) : delivered[k][1].p = dispatched[i].at

\* C4 witness: a BTC packet split over two reads and an MCI packet in a third,
\* dispatched as a button event and then an MCI event
C4_Witness ==
    /\ reads = <<3, 5, 4>>
    /\ Len(dispatched) = 2
    /\ dispatched[1].ev.kind = "button" /\ dispatched[2].ev.kind = "mci"

---------------------------------------------------------------------------
(* SpecSession: the frame loop of main() with the events the InSim client *)
(* hands to handle_state, handle_lap and handle_split during poll().      *)

UF1 == <<85, 70, 49>>
BL2 == <<66, 76, 50>>
DriverOne == Driver \o <<32, 79, 110, 101>>
DriverTwo == Driver \o <<32, 84, 119, 111>>

LapEvent(plid, lap_time_ms, estimate_time_ms, player_name, track, car) ==
    [kind |-> "lap", plid |-> plid, lap_time_ms |-> lap_time_ms,
     estimate_time_ms |-> estimate_time_ms, player_name |-> player_name,
     track |-> Some(track), car |-> Some(car)]

SplitEvent(plid, split_index, split_time_ms, estimate_time_ms, player_name, track, car) ==
    [kind |-> "split", plid |-> plid, split_index |-> split_index,
     split_time_ms |-> split_time_ms, estimate_time_ms |-> estimate_time_ms,
     player_name |-> player_name, track |-> Some(track), car |-> Some(car)]

PlayerName(plid) == IF plid = 5 THEN DriverOne ELSE DriverTwo

StateEvents ==
    { StateEvent(0, Some(SO1), Some(UF1), None),
      StateEvent(0, Some(BL2), Some(UF1), None),
      StateEvent(ISS_MULTI, None, None, Some(5)),
      \* a padded track and a blank car
      StateEvent(0, Some(SO1 \o <<32>>), Some(<<32, 32>>), None) }

LapEvents ==
    { LapEvent(plid, lap_time_ms, 0, PlayerName(plid), context[1], context[2]) :
        plid \in {5, 6}, lap_time_ms \in {0, 64000},
        context \in {<<SO1, UF1>>, <<BL2, UF1>>, <<BL2, XFG>>} }
    \cup { LapEvent(5, 0, 65000, <<>>, BL2, UF1),
           \* a slower lap
           LapEvent(5, 70000, 0, DriverOne, BL2, UF1) }

SplitEvents ==
    { SplitEvent(5, 1, 30000, 0, DriverOne, BL2, UF1),
      SplitEvent(6, 1, 30000, 0, DriverTwo, BL2, XFG),
      SplitEvent(5, 2, 70000, 65000, <<>>, BL2, UF1) }

\* OutSimFrame.time_ms of the frames
FrameTimes == {1000}

\* the rows of table pb when main() starts
InitialRows == { DictSet(EmptyDict, <<BL2, UF1>>, 60000) }

\* test_handle_lap_switches_driver_after_track_change
ScenarioEvents ==
    << StateEvent(0, Some(SO1), Some(UF1), None),
       LapEvent(5, 0, 0, DriverOne, SO1, UF1),
       StateEvent(0, Some(BL2), Some(UF1), None),
       LapEvent(6, 64000, 0, DriverTwo, BL2, UF1) >>

\* the progress through ScenarioEvents after `event`, whose handler made `calls`
ScenarioAfter(event, calls) ==
    IF /\ scenario.step >= 0
       /\ scenario.step < Len(ScenarioEvents)
       /\ ScenarioEvents[scenario.step + 1] = event
    THEN [step |-> scenario.step + 1, calls |-> scenario.calls \o calls]
    ELSE [step |-> -1, calls |-> <<>>]

\* a listener called by insim.poll() in the frame loop leaves the session in `s`
Dispatch(op, event, s) ==
    /\ IsSome(last_frame_time_ms)
    /\ SetSessionState(s)
    /\ slast' = [op |-> op, event |-> event, pre |-> SessionState]
    /\ scenario' = ScenarioAfter(event, s.record_calls)
    /\ UNCHANGED <<framerVars, decoderVars, last, auxVars>>

Listening == [SessionState EXCEPT !.record_calls = <<>>]

\* the frame loop takes the next OutSim frame, lines 819-823
Frame ==
    \E time_ms \in FrameTimes :
        /\ SetSessionState(start_frame(Listening, time_ms))
        /\ slast' = [op |-> "frame", event |-> time_ms, pre |-> SessionState]
        /\ UNCHANGED <<framerVars, decoderVars, last, scenario, auxVars>>

HandleState == \E event \in StateEvents : Dispatch("state", event, handle_state(Listening, event))

HandleLap == \E event \in LapEvents : Dispatch("lap", event, handle_lap(Listening, event))

HandleSplit ==
    \E event \in SplitEvents : Dispatch("split", event, handle_split(Listening, event))

InitSession ==
    /\ ClientStart(DefaultBufferLimit)
    /\ \E rows \in InitialRows : SessionStart(rows, Some(FreshServer))

NextSession ==
    \/ Frame
    \/ HandleState
    \/ HandleLap
    \/ HandleSplit

SpecSession == InitSession /\ [][NextSession]_vars

\* update_track_context called with (track, car) in state `pre` sees a
\* trimmed non-empty track or car that differs from the current one
SeesChange(pre, track, car) ==
    \/ /\ IsSome(track)
       /\ Strip(Get(track)) # <<>>
       /\ Some(Strip(Get(track))) # pre.current_track
    \/ /\ IsSome(car)
       /\ Strip(Get(car)) # <<>>
       /\ Some(Strip(Get(car))) # pre.current_car

Handled == slast.op \in {"state", "lap", "split"}

TimingHandled == slast.op \in {"lap", "split"}

ContextChanged == Handled /\ SeesChange(slast.pre, slast.event.track, slast.event.car)

\* C39: persistent_best, when present, is the stored record of the current
\* (current_track, current_car) pair; a handler replaces it only by what
\* load_personal_best returns for the new pair after a change of context or by
\* the record record_lap returns for the current pair, and a frame never does.
C39_BestOfCurrentPair ==
    /\ IsSome(persistent_best) =>
           /\ IsSome(current_track) /\ IsSome(current_car)
           /\ Get(persistent_best).track = Get(current_track)
           /\ Get(persistent_best).car = Get(current_car)
           /\ persistent_best =
                  load_personal_best(pb, Get(current_track), Get(current_car))
    /\ (Handled /\ persistent_best # slast.pre.persistent_best) =>
           /\ IsSome(current_track) /\ IsSome(current_car)
           /\ \/ /\ ContextChanged
                 /\ persistent_best =
                        load_personal_best(slast.pre.pb, Get(current_track),
                                           Get(current_car))
              \/ /\ slast.op = "lap"
                 /\ slast.event.lap_time_ms > 0
                 /\ persistent_best =
                        Some(record_lap(slast.pre.pb, Get(current_track),
                                        Get(current_car),
                                        slast.event.lap_time_ms).record)
    /\ slast.op = "frame" => persistent_best = slast.pre.persistent_best

\* C39 witness: a LAP event of another car arrived while the personal best of
\* the car before was held, and the handler left a personal best
C39_Witness ==
    /\ slast.op = "lap"
    /\ ContextChanged
    /\ IsSome(slast.pre.persistent_best)
    /\ IsSome(persistent_best)
    /\ Get(persistent_best).car # Get(slast.pre.persistent_best).car

\* C8: a change of track or car seen by update_track_context clears the
\* tracked driver and resets the session timing, so that what is left after
\* the handler comes from its own event only; the first LAP or SPX event
\* handled after the change becomes the tracked driver.
C8_ContextChangeResets ==
    /\ (slast.op = "state" /\ ContextChanged) =>
           /\ tracked_plid = None
           /\ tracked_driver = None
           /\ lap_state = FreshLapState
    /\ (TimingHandled /\ (ContextChanged \/ slast.pre.tracked_plid = None)) =>
           tracked_plid = Some(slast.event.plid)
    /\ (TimingHandled /\ ContextChanged) =>
           /\ lap_state.best_lap_ms \in
                  {None} \cup (IF slast.op = "lap"
                               THEN {Some(slast.event.lap_time_ms)} ELSE {})
           /\ lap_state.current_lap_start_ms \in {None, last_frame_time_ms}
           /\ DOMAIN lap_state.current_split_times \subseteq
                  (IF slast.op = "split" THEN {slast.event.split_index} ELSE {})
           /\ lap_state.last_lap_split_fractions = <<>>
           /\ lap_state.pb_split_fractions = <<>>
           /\ lap_state.latest_estimated_total_ms \in
                  {None, Some(slast.event.estimate_time_ms)}

\* C8 witness: in the track-change scenario PLID 5 was tracked on SO1, the
\* change to BL2 cleared it, and the lap of PLID 6 made PLID 6 the tracked driver
C8_Witness ==
    /\ scenario.step = Len(ScenarioEvents)
    /\ slast.pre.tracked_plid = None
    /\ slast.pre.current_track = Some(BL2)
    /\ tracked_plid = Some(6)
    /\ lap_state.best_lap_ms = Some(64000)

\* C9: record_lap is called only by the handler of a LAP event with
\* lap_time_ms > 0 whose PLID is the tracked one, once, with the current track
\* and car; table pb changes only then; the scenario SO1/PLID 5 then BL2/PLID 6
\* makes exactly the call (BL2, UF1, 64000).
C9_RecordLapOnlyForTrackedLap ==
    /\ record_calls # <<>> =>
           /\ slast.op = "lap"
           /\ slast.event.lap_time_ms > 0
           /\ tracked_plid = Some(slast.event.plid)
           /\ record_calls =
                  << <<Get(current_track), Get(current_car), slast.event.lap_time_ms>> >>
    /\ (slast.op # "init" /\ pb # slast.pre.pb) => record_calls # <<>>
    /\ scenario.step = Len(ScenarioEvents) => scenario.calls = << <<BL2, UF1, 64000>> >>

\* C9 witness: the end of the scenario, with its one call
C9_Witness ==
    /\ scenario.step = Len(ScenarioEvents)
    /\ record_calls = << <<BL2, UF1, 64000>> >>
    /\ pb = DictSet(EmptyDict, <<BL2, UF1>>, 60000)

\* C10: while a driver is tracked, a LAP or SPX event of another PLID leaves
\* the tracked PLID, the session timing and persistent_best as they were and
\* makes no record_lap call, whatever car the event names.
C10_OtherPlidIgnored ==
    (/\ TimingHandled
     /\ IsSome(slast.pre.tracked_plid)
     /\ slast.pre.tracked_plid # Some(slast.event.plid)) =>
        /\ tracked_plid = slast.pre.tracked_plid
        /\ lap_state = slast.pre.lap_state
        /\ persistent_best = slast.pre.persistent_best
        /\ record_calls = <<>>


\* after a LAP event of the tracked driver the splits are empty and the
\* estimate is the event's when it opens a lap with one, absent otherwise
LapLeavesHintOnly ==
    (slast.op = "lap" /\ tracked_plid = Some(slast.event.plid)) =>
        /\ DOMAIN lap_state.current_split_times = {}
        /\ lap_state.latest_estimated_total_ms =
               IF slast.event.lap_time_ms = 0 /\ slast.event.estimate_time_ms > 0
               THEN Some(slast.event.estimate_time_ms)
               ELSE None

\* C35: the split times of the current lap, in the order of their indices,
\* rise strictly and lie below the estimated total when one is known; and
\* a LAP event of the tracked driver leaves no split and only its own hint.
C35_SplitTimesOrdered ==
    LET values == SortedValues(lap_state.current_split_times)
        estimate == lap_state.latest_estimated_total_ms
    IN  /\ \A i \in 1..(Len(values) - 1) : values[i] < values[i + 1]
        /\ IsSome(estimate) => \A i \in 1..Len(values) : values[i] < Get(estimate)
        /\ LapLeavesHintOnly

\* C16: a handler or a frame leaves best_lap_ms as it was, resets it to absent
\* when it sees a change of track or car, or (a LAP event with lap_time_ms > 0)
\* sets it to that lap time when it is the first of the context or strictly
\* smaller; within one context the best never grows and never vanishes.
C16_BestLapOnlyDecreases ==
    slast.op \in {"frame", "state", "lap", "split"} =>
        LET old == slast.pre.lap_state.best_lap_ms
            new == lap_state.best_lap_ms
            changed == ContextChanged
            base == IF changed THEN None ELSE old
        IN  /\ \/ new = base
               \/ /\ slast.op = "lap"
                  /\ slast.event.lap_time_ms > 0
                  /\ new = Some(slast.event.lap_time_ms)
                  /\ ~IsSome(base) \/ slast.event.lap_time_ms < Get(base)
            /\ (~changed /\ IsSome(old)) => (IsSome(new) /\ Get(new) <= Get(old))
            /\ IsSome(new) => Get(new) > 0

\* C16 witness: a lap of 64000 ms replaces a session best of 70000 ms
C16_Witness ==
    /\ slast.op = "lap"
    /\ ~ContextChanged
    /\ slast.pre.lap_state.best_lap_ms = Some(70000)
    /\ lap_state.best_lap_ms = Some(64000)

---------------------------------------------------------------------------
(* SpecLoop: the iterations of the frame loop of main(), lines 819-885:   *)
(* the frame is taken, insim.poll() calls the listeners, and the lap data *)
(* of the frame are handed to the broadcaster.                            *)

\* OutSimFrame.time_ms of the frames; the simulator may restart its clock
LoopFrameTimes == {1000, 2000, 6000}

LoopStateEvents ==
    { StateEvent(0, Some(SO1), Some(UF1), None),
      StateEvent(0, Some(BL2), Some(UF1), None) }

\* test_reference_delta_without_pb_splits_uses_estimates: a lap boundary with
\* an estimate of 85000 or 95000 ms; and a completed lap
LoopLapEvents ==
    { LapEvent(5, 0, 85000, DriverOne, SO1, UF1),
      LapEvent(5, 0, 95000, DriverOne, SO1, UF1),
      LapEvent(5, 64000, 0, DriverOne, SO1, UF1),
      LapEvent(6, 0, 0, DriverTwo, BL2, UF1) }

LoopSplitEvents == { SplitEvent(5, 1, 30000, 0, DriverOne, SO1, UF1) }

\* the stored personal best of the session tests
LoopRows == { DictSet(EmptyDict, <<SO1, UF1>>, 90000) }

\* lines 819-823: the next frame of outsim.frames()
LoopFrame ==
    /\ pc = "frame"
    /\ \E time_ms \in LoopFrameTimes :
        /\ SetSessionState(start_frame(Listening, time_ms))
        /\ slast' = [op |-> "frame", event |-> time_ms, pre |-> SessionState]
        /\ frame' = Some(time_ms)
    /\ pc' = "poll"
    /\ UNCHANGED <<framerVars, decoderVars, last, scenario, player_lap, drawn,
                   storeVars, outsimVars, moreVars>>

\* line 824: insim.poll() calls the listeners of the events it decoded
LoopState ==
    /\ pc = "poll"
    /\ \E event \in LoopStateEvents :
           Dispatch("state", event, handle_state(Listening, event))

LoopLap ==
    /\ pc = "poll"
    /\ \E event \in LoopLapEvents : Dispatch("lap", event, handle_lap(Listening, event))

LoopSplit ==
    /\ pc = "poll"
    /\ \E event \in LoopSplitEvents :
           Dispatch("split", event, handle_split(Listening, event))

\* lines 825-885: poll() has returned; the radar is drawn when radar_enabled
\* says so, the lap data of the frame are computed and handed to
\* server.update_player_lap
LoopPublish ==
    /\ pc = "poll"
    /\ drawn' = Some([frame |-> Get(frame), render_radar |-> radar_enabled])
    /\ player_lap' = IF IsSome(telemetry_server)
                     THEN Some(lap_update(SessionState, Get(frame)))
                     ELSE player_lap
    /\ SetSessionState(SessionState)
    /\ slast' = [op |-> "publish", event |-> Get(frame), pre |-> SessionState]
    /\ pc' = "frame"
    /\ UNCHANGED <<framerVars, decoderVars, last, scenario, frame, storeVars,
                   outsimVars, moreVars>>

InitLoop ==
    /\ ClientStart(DefaultBufferLimit)
    /\ \E rows \in LoopRows : SessionStart(rows, Some(FreshServer))

NextLoop ==
    \/ LoopFrame
    \/ LoopState
    \/ LoopLap
    \/ LoopSplit
    \/ LoopPublish

SpecLoop == InitLoop /\ [][NextLoop]_vars

\* C11: the frame's session update runs after the handlers of the events that
\* the iteration's poll() delivered: when the iteration is over, a lap start
\* that a handler of this iteration left pending has been latched to the
\* frame's time_ms.
C11_FrameUpdateAfterPoll == slast.op = "publish" => ~pending_lap_start

\* C12: a change of track or car leaves the lap start pending and absent
\* (unless the changing event is itself a lap boundary, which sets the start),
\* an absent start is published as an absent current lap, the next frame
\* latches a pending start to its time_ms, a lap that starts at the frame is
\* published as 0 ms, and the published current lap is never negative.
C12_PendingLapStartLatched ==
    /\ (ContextChanged /\ slast.op \in {"state", "split"}) =>
           /\ pending_lap_start
           /\ lap_state.current_lap_start_ms = None
    /\ (ContextChanged /\ slast.op = "lap") =>
           /\ ~pending_lap_start
           /\ lap_state.current_lap_start_ms = slast.pre.last_frame_time_ms
    /\ (slast.op = "frame" /\ slast.pre.pending_lap_start) =>
           /\ ~pending_lap_start
           /\ lap_state.current_lap_start_ms = Some(slast.event)
    /\ slast.op = "publish" =>
           /\ lap_state.current_lap_start_ms = None =>
                  Get(player_lap).current_lap_ms = None
           /\ lap_state.current_lap_start_ms = frame =>
                  Get(player_lap).current_lap_ms = Some(0)
           /\ IsSome(Get(player_lap).current_lap_ms) =>
                  Get(Get(player_lap).current_lap_ms) >= 0

\* C12 witness: the frame after a change of track latched the pending start and
\* the lap was published as 0 ms
C12_Witness ==
    /\ slast.op = "publish"
    /\ current_track = Some(BL2)
    /\ ~IsSome(tracked_plid)
    /\ lap_state.current_lap_start_ms = Some(2000)
    /\ frame = Some(2000)
    /\ Get(player_lap).current_lap_ms = Some(0)

\* C15: with the stored personal best of 90000 ms, no split fractions and no
\* splits recorded, the reference time of a running lap is
\* min(round(PB * clamp(current_ms / est, 0, 1)), PB) for the estimate of the
\* LAP event, so the published delta is negative for est = 85000 and positive
\* for est = 95000.
C15_EstimateDrivenDelta ==
    (/\ slast.op = "publish"
     /\ persistent_best = Some(PersonalBestRecord(SO1, UF1, 90000))
     /\ lap_state.pb_split_fractions = <<>>
     /\ lap_state.last_lap_split_fractions = <<>>
     /\ DOMAIN lap_state.current_split_times = {}
     /\ IsSome(lap_state.latest_estimated_total_ms)
     /\ IsSome(lap_state.current_lap_start_ms)
     /\ Get(frame) > Get(lap_state.current_lap_start_ms)) =>
        LET current_ms == Get(frame) - Get(lap_state.current_lap_start_ms)
            est == Get(lap_state.latest_estimated_total_ms)
            published == Get(player_lap)
        IN  /\ published.current_lap_ms = Some(current_ms)
            /\ published.reference_lap_ms =
                   Some(Min(RoundDiv(90000 * Min(current_ms, est), est), 90000))
            /\ published.delta_ms =
                   Some(current_ms - Get(published.reference_lap_ms))
            /\ est = 85000 => Get(published.delta_ms) < 0
            /\ est = 95000 => Get(published.delta_ms) > 0

\* C15 witness: four seconds into a lap estimated at 85000 ms the driver is
\* published as 235 ms ahead of the personal best
C15_Witness ==
    /\ slast.op = "publish"
    /\ lap_state.latest_estimated_total_ms = Some(85000)
    /\ Get(player_lap).current_lap_ms = Some(4000)
    /\ Get(player_lap).reference_lap_ms = Some(4235)
    /\ Get(player_lap).delta_ms = Some(-235)

---------------------------------------------------------------------------
(* SpecReference: handle_lap and the reference-time algorithm applied to  *)
(* a session whose lap_state holds any splits, estimate and fractions.    *)
(* Times are a few milliseconds, so that every product stays small.       *)

\* current_split_times: split_index -> split_time_ms, in any order, with
\* duplicates, zeros and times beyond the lap
SplitMaps ==
    UNION { [keys -> {0, 3, 5, 9}] : keys \in {{}, {1}, {1, 2}, {1, 2, 3}} }

\* fractions as handle_lap leaves them for a lap of `total` ms
FractionLists(total) ==
    { <<>>, <<Fraction(2, total)>>, <<Fraction(2, total), Fraction(5, total)>> }

ReferenceLapEvents == { LapEvent(5, lap_time_ms, 0, DriverOne, SO1, UF1) : lap_time_ms \in {4, 8} }

\* PLID 5 is tracked on SO1 in UF1, the lap started with the frame at 0 ms and
\* poll() is running in the iteration of the frame at `frame`; `best` is
\* persistent_best.laptime_ms, or None without a stored personal best
InitReference ==
    /\ ClientStart(DefaultBufferLimit)
    /\ \E best \in {None, Some(7), Some(10)}, splits \in SplitMaps,
          estimate \in {None, Some(3), Some(6)} :
       \E pb_fractions \in (IF IsSome(best) THEN FractionLists(Get(best)) ELSE {<<>>}),
          last_fractions \in {<<>>, <<Fraction(3, 8)>>} :
           /\ lap_state = [current_lap_start_ms |-> Some(0),
                           best_lap_ms |-> IF last_fractions = <<>> THEN None ELSE Some(8),
                           current_split_times |-> splits,
                           last_lap_split_fractions |-> last_fractions,
                           pb_split_fractions |-> pb_fractions,
                           latest_estimated_total_ms |-> estimate]
           /\ persistent_best = IF IsSome(best)
                                THEN Some(PersonalBestRecord(SO1, UF1, Get(best)))
                                ELSE None
           /\ pb = IF IsSome(best) THEN DictSet(EmptyDict, <<SO1, UF1>>, Get(best))
                   ELSE EmptyDict
    /\ tracked_plid = Some(5)
    /\ tracked_driver = Some(DriverOne)
    /\ current_track = Some(SO1)
    /\ current_car = Some(UF1)
    /\ pending_lap_start = FALSE
    /\ current_mode = "sp"
    /\ mode_settings = DefaultModeSettings
    /\ radar_enabled = DefaultModeSettings.sp.radar_enabled
    /\ beep_enabled = DefaultModeSettings.sp.beeps_enabled
    /\ telemetry_server = Some([track |-> Some(SO1), car |-> Some(UF1),
                                focus_plid |-> Some(5)])
    /\ hud = HUDController_show(DefaultModeSettings.sp.radar_enabled,
                                DefaultModeSettings.sp.beeps_enabled)
    /\ drawn = None
    /\ record_calls = <<>>
    /\ slast = [op |-> "init", event |-> None, pre |-> None]
    /\ scenario = [step |-> -1, calls |-> <<>>]
    /\ \E time_ms \in {0, 2, 4, 6, 9} :
           /\ frame = Some(time_ms)
           /\ last_frame_time_ms = Some(time_ms)
    /\ pc = "poll"
    /\ player_lap = None
    /\ StoreIdle
    /\ OutSimIdle
    /\ MoreIdle

\* insim.poll() delivers a completed lap of the tracked driver
ReferenceLap ==
    /\ pc = "poll"
    /\ slast.op = "init"
    /\ \E event \in ReferenceLapEvents :
           Dispatch("lap", event, handle_lap(Listening, event))

NextReference == ReferenceLap \/ LoopPublish

SpecReference == InitReference /\ [][NextReference]_vars

\* the fractions rise strictly and lie strictly between 0 and 1
StrictlyRising(fractions) ==
    /\ \A i \in 1..Len(fractions) :
           fractions[i].num > 0 /\ fractions[i].num < fractions[i].den
    /\ \A i \in 1..(Len(fractions) - 1) : FractionLess(fractions[i], fractions[i + 1])

\* C13: after a LAP event of the tracked driver with lap_time_ms > 0, whatever
\* current_split_times held, last_lap_split_fractions rises strictly inside
\* (0, 1), and pb_split_fractions is either what it was or a copy of it.
C13_FractionsStrictlyRising ==
    (slast.op = "lap" /\ slast.event.lap_time_ms > 0
        /\ slast.pre.tracked_plid = Some(slast.event.plid)) =>
        /\ StrictlyRising(lap_state.last_lap_split_fractions)
        /\ \A i \in 1..Len(lap_state.last_lap_split_fractions) :
               lap_state.last_lap_split_fractions[i].den = slast.event.lap_time_ms
        /\ \/ lap_state.pb_split_fractions = slast.pre.lap_state.pb_split_fractions
           \/ lap_state.pb_split_fractions = lap_state.last_lap_split_fractions
        /\ StrictlyRising(lap_state.pb_split_fractions)

\* C13 witness: splits 5, 3 and 9 ms of a lap of 8 ms leave the one fraction 5/8
C13_Witness ==
    /\ slast.op = "lap"
    /\ slast.event.lap_time_ms = 8
    /\ slast.pre.lap_state.current_split_times = <<5, 3, 9>>
    /\ lap_state.last_lap_split_fractions = <<Fraction(5, 8)>>

\* C14: the reference time handed to the broadcaster is absent or an integer
\* in [0, PB.laptime_ms], and the lap progress is absent or lies in [0, 1].
C14_ReferenceWithinBest ==
    slast.op = "publish" =>
        LET published == Get(player_lap) IN
        /\ IsSome(published.reference_lap_ms) =>
               /\ IsSome(persistent_best)
               /\ Get(published.reference_lap_ms) >= 0
               /\ Get(published.reference_lap_ms) <= Get(persistent_best).laptime_ms
        /\ IsSome(published.progress) =>
               /\ Get(published.progress).num >= 0
               /\ Get(published.progress).num <= Get(published.progress).den

\* C14 witness: 9 ms into a lap with splits and PB fractions the reference is
\* capped at the personal best of 7 ms
C14_Witness ==
    /\ slast.op = "publish"
    /\ lap_state.pb_split_fractions # <<>>
    /\ DOMAIN lap_state.current_split_times # {}
    /\ Get(player_lap).current_lap_ms = Some(9)
    /\ Get(player_lap).reference_lap_ms = Some(7)
    /\ Get(persistent_best).laptime_ms = 7

\* segment 0 of the interpolation: from fraction 0 to the first boundary,
\* `now` ms into the lap
SegmentZero(pb_total, fractions, now) ==
    LET end_fraction == (fractions \o <<Fraction(1, 1)>>)[1]
        pb_end == RoundDiv(pb_total * end_fraction.num, end_fraction.den)
    IN  Min(Min(now, Max(pb_end, 1)), pb_total)

\* C33: with a personal best and fractions to refer to, the reference time
\* handed on for a frame is present, whatever the estimate is, and while no
\* split of the current lap has been passed it is the interpolation in
\* segment 0.
C33_SegmentZeroWithoutSplit ==
    slast.op = "publish" =>
        LET published == Get(player_lap)
            fractions == resolve_reference_fractions(lap_state)
        IN  (/\ IsSome(persistent_best)
             /\ Get(persistent_best).laptime_ms > 0
             /\ fractions # <<>>
             /\ IsSome(published.current_lap_ms)) =>
                /\ IsSome(published.reference_lap_ms)
                /\ passed_splits(SortedValues(lap_state.current_split_times),
                                 Get(published.current_lap_ms)) = <<>> =>
                       Get(published.reference_lap_ms) =
                           SegmentZero(Get(persistent_best).laptime_ms, fractions,
                                       Get(published.current_lap_ms))

---------------------------------------------------------------------------
(* SpecStore: the PB store called directly, as its tests call it, and by    *)
(* the session's handlers: update_track_context loads the personal best     *)
(* (main.py:522) and handle_lap records the lap (main.py:628).               *)

\* the number of calls of the store in a behaviour
MaxStoreCalls == 3

StoreTracks == {SO1, BL2}

StoreLapTimes == {-1, 74000, 75000}

StoreTimestamps == {None, Some(datetime(60, Some(2)))}

\* datetime.now(timezone.utc)
StoreNow == datetime(82, Some(0))

\* table pb as test_migrations_apply_to_existing_database creates it, with a row
LegacyRows == { PbRow(SO1, UF1, 75000, <<10, None>>) }

StoreFiles ==
    { EmptyFile,
      [schema_migrations |-> None, pb |-> Some(LegacyRows)],
      [schema_migrations |-> Some({V0001_initial, V0010_a}), pb |-> Some({})] }

MigrationDirs == { {V0001_initial}, {V0001_initial, V0002_b, V0010_a} }

StoreStateEvents == { StateEvent(0, Some(SO1), Some(UF1), 5) }

StoreLapEvents ==
    { LapEvent(5, 74500, 0, DriverOne, SO1, UF1),
      LapEvent(5, 76000, 0, DriverOne, SO1, UF1),
      LapEvent(5, 76000, 0, DriverOne, BL2, UF1) }

\* the keys of the rows
RowKeys(rows) == { <<row.track, row.car>> : row \in rows }

\* table pb as the session's handlers see it: (track, car) -> laptime_ms
StoredLaptimes(file) ==
    IF ~IsSome(file.pb) THEN EmptyDict
    ELSE [key \in RowKeys(Get(file.pb)) |->
             (CHOOSE row \in Get(file.pb) : <<row.track, row.car>> = key).laptime_ms]

\* the lap times of the rows, by key
RecordedIn(rows) ==
    [key \in RowKeys(rows) |-> { row.laptime_ms : row \in select_pb([pb |-> Some(rows)],
                                                                  key[1], key[2]) }]

\* `laps` with one more lap time recorded for (track, car)
AlsoRecorded(laps, track, car, laptime_ms) ==
    DictSet(laps, <<track, car>>,
            IF <<track, car>> \in DOMAIN laps
            THEN laps[<<track, car>>] \cup {laptime_ms} ELSE {laptime_ms})

\* a call of the store, by a test ("direct") or by a handler of main ("main")
StoreCall(caller, op, track, car, laptime_ms, timestamp, file, result) ==
    [n |-> store_last.n + 1, caller |-> caller, op |-> op, track |-> track,
     car |-> car, laptime_ms |-> laptime_ms,
     timestamp |-> timestamp, pre |-> file, result |-> result]

InitStore ==
    /\ ClientStart(DefaultBufferLimit)
    /\ LoopIdle
    /\ OutSimIdle
    /\ MoreIdle
    /\ db \in StoreFiles
    /\ migrations_dir \in MigrationDirs
    /\ store_last = [n |-> 0, op |-> "init"]
    /\ recorded = IF IsSome(db.pb) THEN RecordedIn(Get(db.pb)) ELSE EmptyDict
    /\ SessionEntered(StoredLaptimes(db), Some(FreshServer))

\* record_lap called directly
StoreRecordLap ==
    \E track \in StoreTracks, laptime_ms \in StoreLapTimes, timestamp \in StoreTimestamps :
        LET result == store_record_lap(db, migrations_dir, track, UF1, laptime_ms,
                                       timestamp, StoreNow)
        IN  /\ store_last.n < MaxStoreCalls
            /\ db' = result.db
            /\ store_last' = StoreCall("direct", "record_lap", track, UF1, laptime_ms, timestamp,
                                       db, result)
            /\ recorded' = IF IsSome(result.raised) THEN recorded
                           ELSE AlsoRecorded(recorded, track, UF1, laptime_ms)
            /\ pb' = StoredLaptimes(result.db)
            /\ UNCHANGED <<framerVars, decoderVars, last, loopVars, outsimVars, moreVars,
                           migrations_dir, lap_state, tracked_plid, tracked_driver, current_track,
                           current_car, persistent_best, last_frame_time_ms,
                           pending_lap_start, current_mode, mode_settings, radar_enabled,
                           beep_enabled, telemetry_server, hud, record_calls, slast,
                       scenario>>

\* load_personal_best called directly
StoreLoad ==
    \E track \in StoreTracks :
        LET result == store_load_personal_best(db, migrations_dir, track, UF1) IN
        /\ store_last.n < MaxStoreCalls
        /\ db' = result.db
        /\ store_last' = StoreCall("direct", "load", track, UF1, 0, None, db, result)
        /\ pb' = StoredLaptimes(result.db)
        /\ UNCHANGED <<framerVars, decoderVars, last, loopVars, outsimVars, moreVars,
                       migrations_dir, recorded, lap_state, tracked_plid, tracked_driver, current_track,
                       current_car, persistent_best, last_frame_time_ms,
                       pending_lap_start, current_mode, mode_settings, radar_enabled,
                       beep_enabled, telemetry_server, hud, record_calls, slast,
                       scenario>>

\* the frame loop takes its first OutSim frame
StoreFrame ==
    /\ ~IsSome(last_frame_time_ms)
    /\ SetSessionState(start_frame(Listening, 1000))
    /\ slast' = [op |-> "frame", event |-> 1000, pre |-> SessionState]
    /\ UNCHANGED <<framerVars, decoderVars, last, scenario, auxVars>>

\* a listener leaves the session in `s`, having called the store as
\* update_track_context and handle_lap do
StoreDispatch(op, event, s) ==
    LET loads == /\ SeesChange(SessionState, event.track, event.car)
                 /\ Truthy(s.current_track)
                 /\ Truthy(s.current_car)
        track == Get(s.current_track)
        car == Get(s.current_car)
        loaded == store_load_personal_best(db, migrations_dir, track, car)
        file == IF loads THEN loaded.db ELSE db
        records == s.record_calls # <<>>
        lap_time == s.record_calls[1][3]
        result == store_record_lap(file, migrations_dir, track, car, lap_time, None,
                                   StoreNow)
    IN  /\ IsSome(last_frame_time_ms)
        /\ store_last.n < MaxStoreCalls
        /\ SetSessionState(s)
        /\ slast' = [op |-> op, event |-> event, pre |-> SessionState]
        /\ db' = IF records THEN result.db ELSE file
        /\ store_last' = IF records
                         THEN StoreCall("main", "record_lap", track, car, lap_time, None, file,
                                        result)
                         ELSE IF loads
                         THEN StoreCall("main", "load", track, car, 0, None, db, loaded)
                         ELSE store_last
        /\ recorded' = IF records THEN AlsoRecorded(recorded, track, car, lap_time)
                       ELSE recorded
        /\ UNCHANGED <<framerVars, decoderVars, last, loopVars, outsimVars, moreVars,
                       migrations_dir, scenario>>

StoreState ==
    \E event \in StoreStateEvents :
        StoreDispatch("state", event, handle_state(Listening, event))

StoreLap ==
    \E event \in StoreLapEvents : StoreDispatch("lap", event, handle_lap(Listening, event))

NextStore == StoreRecordLap \/ StoreLoad \/ StoreFrame \/ StoreState \/ StoreLap

SpecStore == InitStore /\ [][NextStore]_vars

\* the session's view of table pb is the table of the file
StoreViewAgrees ==
    /\ pb = StoredLaptimes(db)
    /\ (store_last.op = "record_lap" /\ store_last.caller = "main") =>
           /\ ~IsSome(store_last.result.raised)
           /\ Get(persistent_best).laptime_ms = Get(store_last.result.record).laptime_ms

\* the rows of (track, car) in table pb of the file, none without the table
RowsOf(file, track, car) ==
    IF IsSome(file.pb) THEN select_pb(file, track, car) ELSE {}

\* the hour in UTC a call of record_lap stamps its row with
StampHour(call) ==
    IF ~IsSome(call.timestamp) THEN StoreNow.wall
    ELSE IF ~IsSome(Get(call.timestamp).tzinfo) THEN Get(call.timestamp).wall
    ELSE Get(call.timestamp).wall - Get(Get(call.timestamp).tzinfo)

\* the last call of the store inserted or replaced the row of its key
Stored(call) ==
    /\ RowsOf(db, call.track, call.car) =
           { PbRow(call.track, call.car, call.laptime_ms, <<StampHour(call), Some(0)>>) }
    /\ call.result.improved
    /\ call.result.record =
           Some(PersonalBestRecordAt(call.track, call.car, call.laptime_ms,
                                     datetime(StampHour(call), Some(0))))

\* C17: record_lap with ms >= 0 inserts the row and returns improved = true
\* when (track, car) has no row, replaces lap time and timestamp and returns
\* improved = true when ms is strictly less than the stored lap time, and
\* otherwise leaves the row as it is and returns the prior record with
\* improved = false, so that replaying the call leaves the store as it is;
\* ms < 0 is rejected with the store unchanged.
C17_RecordLapContract ==
    store_last.op = "record_lap" =>
        LET call == store_last
            before == RowsOf(call.pre, call.track, call.car)
        IN  /\ call.laptime_ms < 0 =>
                   /\ call.result.raised = Some("ValueError")
                   /\ db = call.pre
            /\ call.laptime_ms >= 0 =>
                   /\ call.result.raised = None
                   /\ before = {} => Stored(call)
                   /\ \A prior \in before :
                          IF call.laptime_ms < prior.laptime_ms THEN Stored(call)
                          ELSE /\ RowsOf(db, call.track, call.car) = {prior}
                               /\ ~call.result.improved
                               /\ call.result.record = Some(_parse_row(prior))
                   /\ store_record_lap(db, migrations_dir, call.track, call.car,
                                       call.laptime_ms, call.timestamp, StoreNow).db = db

\* C17 witness: a lap equal to the stored one, recorded with another timestamp,
\* leaves the row of the pre-existing table as it was
C17_Witness ==
    /\ store_last.op = "record_lap"
    /\ store_last.laptime_ms = 75000
    /\ store_last.timestamp = Some(datetime(60, Some(2)))
    /\ store_last.pre.pb = Some(LegacyRows)
    /\ db.pb = Some(LegacyRows)
    /\ ~store_last.result.improved
    /\ store_last.result.record =
           Some(PersonalBestRecordAt(SO1, UF1, 75000, datetime(10, Some(0))))

\* C17 witness of the rejection: a negative lap time raises before the file is
\* opened, so that not even the ledger is created
C17_Rejected ==
    /\ store_last.op = "record_lap"
    /\ store_last.laptime_ms = -1
    /\ store_last.pre = EmptyFile
    /\ db = EmptyFile

\* the least of a non-empty set of lap times
Least(laps) == CHOOSE lap \in laps : \A other \in laps : lap <= other

\* C18: without a delete, table pb holds at most one row per (track, car), the
\* row's lap time is the minimum of the lap times recorded for the key and
\* never increases, a call leaves the rows of other keys as they were, and
\* persistent_best.laptime_ms never increases while track and car stay.
C18_StoredBestOnlyDecreases ==
    LET rows == IF IsSome(db.pb) THEN Get(db.pb) ELSE {} IN
    /\ \A one \in rows, other \in rows :
           (one.track = other.track /\ one.car = other.car) => one = other
    /\ RowKeys(rows) = DOMAIN recorded
    /\ \A row \in rows : row.laptime_ms = Least(recorded[<<row.track, row.car>>])
    /\ store_last.op # "init" =>
           \A prior \in (IF IsSome(store_last.pre.pb) THEN Get(store_last.pre.pb) ELSE {}) :
               /\ \E row \in RowsOf(db, prior.track, prior.car) :
                      row.laptime_ms <= prior.laptime_ms
               /\ (store_last.op = "load" \/ <<prior.track, prior.car>> #
                                             <<store_last.track, store_last.car>>) =>
                      prior \in rows
    /\ (/\ Handled
        /\ current_track = slast.pre.current_track
        /\ current_car = slast.pre.current_car
        /\ IsSome(slast.pre.persistent_best)) =>
           /\ IsSome(persistent_best)
           /\ Get(persistent_best).laptime_ms <= Get(slast.pre.persistent_best).laptime_ms

\* C18 witness: the pre-existing row of 75000 ms, a lap of 74500 ms and then a
\* slower lap of 76000 ms driven in the session leave 74500 ms stored
C18_Witness ==
    /\ store_last.op = "record_lap"
    /\ store_last.caller = "main"
    /\ store_last.laptime_ms = 76000
    /\ <<SO1, UF1>> \in DOMAIN recorded
    /\ recorded[<<SO1, UF1>>] = {75000, 74500, 76000}
    /\ slast.pre.persistent_best = Some(PersonalBestRecord(SO1, UF1, 74500))
    /\ persistent_best = Some(PersonalBestRecord(SO1, UF1, 74500))
    /\ StoredLaptimes(db)[<<SO1, UF1>>] = 74500

\* the ledger of the file, empty without table schema_migrations
Ledger(file) ==
    IF IsSome(file.schema_migrations) THEN Get(file.schema_migrations) ELSE {}

---------------------------------------------------------------------------
(* SpecOutSim: an OutSimClient is started and its frames() generator is     *)
(* driven while the socket delivers datagrams, times out or fails.           *)

\* the number of recvfrom calls in a behaviour
MaxDatagrams == 3

\* the text "a.b.c.d/prefix", "a.b.c.d", "   ", "::1" and "this-is-not-an-ip"
Cidr(address, prefix) == [kind |-> "v4", address |-> address, prefix |-> Some(prefix)]
Host(address) == [kind |-> "v4", address |-> address, prefix |-> None]
Blank == [kind |-> "blank"]
V6Loopback == [kind |-> "v6", address |-> <<0, 0, 0, 0, 0, 0, 0, 1>>]
NotAnIp == [kind |-> "invalid"]

AllowedSourceLists ==
    { None,
      Some(<<>>),
      Some(<<Blank, Blank>>),
      Some(<<NotAnIp>>),
      Some(<<Cidr(<<192, 168, 0, 0>>, 24)>>),
      Some(<<Host(<<192, 168, 0, 42>>), Blank, Cidr(<<10, 0, 0, 0>>, 8)>>),
      Some(<<Cidr(<<192, 168, 0, 77>>, 25)>>),
      Some(<<Blank, V6Loopback>>) }

\* max_packets_per_second as main passes it: no limit or one packet a second
RateLimits == { None, Some(1) }

\* timeout as main passes it: None or 1 / update_hz, here in milliseconds
Timeouts == { None, Some(50) }

SourceAddresses == { <<10, 0, 0, 1>>, <<192, 168, 0, 42>>, <<192, 168, 0, 200>> }

DatagramSizes == {12, 64, 300}

\* time_ms of the first datagram
FirstTimeMs == 1337

InitOutSim ==
    /\ ClientStart(DefaultBufferLimit)
    /\ LoopIdle
    /\ StoreIdle
    /\ MoreIdle
    /\ SessionEntered(EmptyDict, Some(FreshServer))
    /\ OutSimIdle

OutSimQuiet ==
    UNCHANGED <<framerVars, decoderVars, last, sessionVars, loopVars, storeVars, moreVars>>

\* an OutSimClient was constructed
Constructed == IsSome(outsim_call) /\ ~IsSome(Get(outsim_call).raised)

\* OutSimClient(port, timeout=..., allowed_sources=...), as the tests call it,
\* and with max_packets_per_second too, as main.py:797-806 calls it
OutSimConstruct ==
    \E allowed_sources \in AllowedSourceLists, timeout \in Timeouts,
       rate \in {None} \cup { Some(limit) : limit \in RateLimits } :
        LET keywords == [allowed_sources |-> Some(allowed_sources),
                         timeout |-> Some(timeout),
                         max_packets_per_second |-> rate]
            call == OutSimClient_call(keywords)
        IN  /\ outsim_call = None
            /\ outsim_call' = Some([keywords |-> keywords, raised |-> call.raised])
            /\ outsim' = IF IsSome(call.self) THEN Get(call.self) ELSE outsim
            /\ UNCHANGED <<frames_pc, received, yielded>>
            /\ OutSimQuiet

\* OutSimClient.start
OutSimStart ==
    /\ Constructed
    /\ ~outsim._sock
    /\ outsim' = [outsim EXCEPT !._sock = TRUE]
    /\ UNCHANGED <<outsim_call, frames_pc, received, yielded>>
    /\ OutSimQuiet

\* the first next() on frames() enters the generator, lines 158-159
OutSimFrames ==
    /\ Constructed
    /\ frames_pc = "new"
    /\ frames_pc' = IF outsim._sock THEN "running" ELSE "raised"
    /\ UNCHANGED <<outsim_call, outsim, received, yielded>>
    /\ OutSimQuiet

\* recvfrom returns a datagram, lines 163-183: the generator is suspended at
\* its yield when a frame is yielded and goes on receiving when none is
OutSimDatagram ==
    \E addr \in SourceAddresses, size \in DatagramSizes :
        LET time_ms == FirstTimeMs + Len(received)
            data_len == Min(size, outsim._buffer_size)
            packet == [kind |-> "datagram", addr |-> addr, len |-> size,
                       time_ms |-> time_ms]
            parsed == from_packet(data_len, time_ms)
            yields == _is_source_allowed(outsim, addr) /\ IsSome(parsed)
        IN  /\ frames_pc = "running"
            /\ Len(received) < MaxDatagrams
            /\ received' = Append(received, packet)
            /\ yielded' = IF yields
                          THEN Append(yielded, [time_ms |-> Get(parsed),
                                                datagram |-> Len(received) + 1])
                          ELSE yielded
            /\ frames_pc' = IF yields THEN "suspended" ELSE "running"
            /\ UNCHANGED <<outsim_call, outsim>>
            /\ OutSimQuiet

\* the caller's next() resumes the generator after the yield, line 181
OutSimResume ==
    /\ frames_pc = "suspended"
    /\ frames_pc' = "running"
    /\ UNCHANGED <<outsim_call, outsim, received, yielded>>
    /\ OutSimQuiet

\* recvfrom raises socket.timeout, lines 164-166
OutSimTimeout ==
    /\ frames_pc = "running"
    /\ IsSome(outsim._timeout)
    /\ Len(received) < MaxDatagrams
    /\ received' = Append(received, [kind |-> "timeout"])
    /\ UNCHANGED <<outsim_call, outsim, frames_pc, yielded>>
    /\ OutSimQuiet

\* recvfrom raises another OSError, lines 167-169
OutSimError ==
    /\ frames_pc = "running"
    /\ Len(received) < MaxDatagrams
    /\ received' = Append(received, [kind |-> "error"])
    /\ frames_pc' = "raised"
    /\ UNCHANGED <<outsim_call, outsim, yielded>>
    /\ OutSimQuiet

NextOutSim ==
    \/ OutSimConstruct
    \/ OutSimStart
    \/ OutSimFrames
    \/ OutSimDatagram
    \/ OutSimResume
    \/ OutSimTimeout
    \/ OutSimError

SpecOutSim == InitOutSim /\ [][NextOutSim]_vars

\* bit n of the 32 bits of an address, the most significant first
AddressBit(address, n) ==
    (address[((n - 1) \div 8) + 1] \div Pow2(7 - ((n - 1) % 8))) % 2

\* the address lies in the range the text of an entry denotes
InRange(address, text) ==
    /\ text.kind = "v4"
    /\ \A n \in 1..(IF IsSome(text.prefix) THEN Get(text.prefix) ELSE 32) :
           AddressBit(address, n) = AddressBit(text.address, n)

\* the address lies in one of the configured ranges
Permitted(address) ==
    \E i \in DOMAIN Get(outsim._allowed_source_strings) :
        InRange(address, Get(outsim._allowed_source_strings)[i])

\* the datagrams of a permitted source that hold a whole frame
Accepted ==
    { i \in DOMAIN received :
          /\ received[i].kind = "datagram"
          /\ Permitted(received[i].addr)
          /\ received[i].len >= OUTSIM_SIZE }

\* C20: with allowed_sources configured, no frame is yielded from a datagram
\* whose source lies outside every configured address and CIDR range; such a
\* datagram is dropped without ending the stream, and the datagrams of
\* permitted sources, earlier or later, are yielded one frame each, in order.
C20_DisallowedSourcesDropped ==
    IsSome(outsim._allowed_source_strings) =>
        /\ \A k \in DOMAIN yielded :
               /\ received[yielded[k].datagram].kind = "datagram"
               /\ Permitted(received[yielded[k].datagram].addr)
               /\ yielded[k].time_ms = received[yielded[k].datagram].time_ms
        /\ { yielded[k].datagram : k \in DOMAIN yielded } = Accepted
        /\ \A k \in DOMAIN yielded, l \in DOMAIN yielded :
               k < l => yielded[k].datagram < yielded[l].datagram
        /\ (received # <<>> /\ received[Len(received)].kind = "datagram") =>
               frames_pc \in {"running", "suspended"}

\* C20 witness: the scenario of test_outsim_client_rejects_disallowed_sources,
\* a datagram from 10.0.0.1 and then one from 192.168.0.42 with
\* 192.168.0.0/24 allowed
C20_Witness ==
    /\ outsim._allowed_source_strings = Some(<<Cidr(<<192, 168, 0, 0>>, 24)>>)
    /\ Len(received) = 2
    /\ received[1].kind = "datagram"
    /\ received[1].addr = <<10, 0, 0, 1>>
    /\ received[1].len = 64
    /\ received[2].kind = "datagram"
    /\ received[2].addr = <<192, 168, 0, 42>>
    /\ yielded = <<[time_ms |-> 1338, datagram |-> 2]>>
    /\ frames_pc = "suspended"

\* the keywords of the call OutSimClient(...), once it was made
Called(keyword) == Get(outsim_call).keywords[keyword]

\* allowed_sources was passed as a list with no entry left after the blank
\* ones are ignored
NoSourceLeft ==
    /\ IsSome(outsim_call)
    /\ IsSome(Called("allowed_sources"))
    /\ IsSome(Get(Called("allowed_sources")))
    /\ \A i \in DOMAIN Get(Get(Called("allowed_sources"))) :
           Get(Get(Called("allowed_sources")))[i].kind = "blank"

\* C21: constructing the OutSim ingester with allowed_sources explicitly empty,
\* or empty once its blank entries are ignored, fails with a configuration
\* error (the ValueError of tests/test_outsim_security.py 112-126): no client
\* exists that has the filter disabled or that drops every packet.
C21_EmptyAllowedSourcesRejected ==
    NoSourceLeft => Get(outsim_call).raised = Some("ValueError")

\* ceil(r) of the rate limits of the model, which are whole numbers
Ceil(r) == r

\* C22: with max_packets_per_second = r, r > 0, the ingester is constructed
\* and, while no time elapses (the model has no clock: its datagrams arrive at
\* one instant), frames() yields at most ceil(r) frames, the capacity of the
\* bucket; the datagrams that find it empty are dropped.
C22_RateLimitEnforced ==
    ( /\ IsSome(outsim_call)
      /\ IsSome(Called("max_packets_per_second"))
      /\ IsSome(Get(Called("max_packets_per_second")))
      /\ Get(Get(Called("max_packets_per_second"))) > 0 ) =>
        /\ Get(outsim_call).raised = None
        /\ Len(yielded) <= Ceil(Get(Get(Called("max_packets_per_second"))))

\* C23: with a receive timeout set (outsim.update_hz), a receive timeout
\* yields no frame but hands control back to the caller of frames(), whose
\* loop body is where main calls insim.poll(): after a timeout the generator
\* is not inside its receive loop any more.
C23_TimeoutReturnsControl ==
    ( /\ received # <<>>
      /\ received[Len(received)].kind = "timeout" ) =>
        /\ IsSome(outsim._timeout)
        /\ frames_pc = "suspended"

---------------------------------------------------------------------------
\* The shadow state of the broadcaster: the update methods called from two
\* threads while the loop thread builds snapshots, one bytecode-level
\* assignment or read at a step.

MaxUpdateCalls == 3
MaxSnapshots == 2

SnapFrames == {1000}
SnapCars == { <<>>, <<[plid |-> 7]>> }
SnapPlids == { None, Some(7) }
SnapContexts == { <<Some("SO1"), Some("UF1")>>, <<Some("BL1"), Some("XFG")>> }
SnapLaps ==
    { <<None, None, None, None>>,
      <<Some(1), Some(1000), Some(75000), Some(-20)>>,
      <<Some(2), Some(2000), Some(74000), Some(30)>> }

\* a TelemetryBroadcaster constructed and started, everything else at rest
InitBroadcaster ==
    /\ ClientStart(DefaultBufferLimit)
    /\ LoopIdle
    /\ StoreIdle
    /\ OutSimIdle
    /\ SessionEntered(EmptyDict, Some(FreshServer))
    /\ MoreIdle

SnapshotQuiet ==
    UNCHANGED <<framerVars, decoderVars, last, sessionVars, loopVars, storeVars,
                outsimVars, clientVars, shutdownVars, reloadVars, lateVars>>

\* a thread enters an update method with its arguments evaluated
WriterEnter(thread, call) ==
    /\ writer_pc[thread].at = "idle"
    /\ snap_hist.calls < MaxUpdateCalls
    /\ writer_pc' = [writer_pc EXCEPT ![thread] =
                        [at |-> IF call.locked THEN "acquire" ELSE "write",
                         locked |-> call.locked,
                         writes |-> call.writes]]
    /\ UNCHANGED <<broadcaster, _lock, snap_pc>>
    /\ SnapshotQuiet

WriterUpdateOutsim ==
    \E thread \in WriterThreads, outsim_frame \in SnapFrames :
        /\ WriterEnter(thread, ws_update_outsim(outsim_frame))
        /\ snap_hist' = [snap_hist EXCEPT !.calls = @ + 1]

WriterUpdateMci ==
    \E thread \in WriterThreads, cars \in SnapCars, view_plid \in SnapPlids :
        /\ WriterEnter(thread, ws_update_mci([cars |-> cars, view_plid |-> view_plid]))
        /\ snap_hist' = [snap_hist EXCEPT !.calls = @ + 1]

WriterSetFocusPlid ==
    \E thread \in WriterThreads, plid \in SnapPlids :
        /\ WriterEnter(thread, ws_set_focus_plid(plid))
        /\ snap_hist' = [snap_hist EXCEPT !.calls = @ + 1]

WriterUpdateTrackContext ==
    \E thread \in WriterThreads, context \in SnapContexts :
        /\ WriterEnter(thread, ws_update_track_context(context[1], context[2]))
        /\ snap_hist' = [snap_hist EXCEPT !.calls = @ + 1,
                                          !.contexts = @ \cup {context}]

WriterUpdatePlayerLap ==
    \E thread \in WriterThreads, lap \in SnapLaps :
        /\ WriterEnter(thread, ws_update_player_lap(lap[1], lap[2], lap[3], lap[4]))
        /\ snap_hist' = [snap_hist EXCEPT !.calls = @ + 1,
                                          !.laps = @ \cup {lap}]

\* `with self._lock:` entered by a caller of an update method
WriterAcquire ==
    \E thread \in WriterThreads :
        /\ writer_pc[thread].at = "acquire"
        /\ _lock = None
        /\ _lock' = Some(thread)
        /\ writer_pc' = [writer_pc EXCEPT ![thread].at = "write"]
        /\ UNCHANGED <<broadcaster, snap_pc, snap_hist>>
        /\ SnapshotQuiet

\* the next assignment of the method's body
WriterWrite ==
    \E thread \in WriterThreads :
        LET write == Head(writer_pc[thread].writes)
        IN  /\ writer_pc[thread].at = "write"
            /\ writer_pc[thread].writes # <<>>
            /\ broadcaster' = [broadcaster EXCEPT ![write.field] = write.value]
            /\ writer_pc' = [writer_pc EXCEPT ![thread].writes = Tail(@)]
            /\ UNCHANGED <<_lock, snap_pc, snap_hist>>
            /\ SnapshotQuiet

\* the end of the body: the lock is released and the method returns
WriterReturn ==
    \E thread \in WriterThreads :
        /\ writer_pc[thread].at = "write"
        /\ writer_pc[thread].writes = <<>>
        /\ _lock' = IF writer_pc[thread].locked THEN None ELSE _lock
        /\ writer_pc' = [writer_pc EXCEPT ![thread] = [at |-> "idle"]]
        /\ UNCHANGED <<broadcaster, snap_pc, snap_hist>>
        /\ SnapshotQuiet

\* _broadcast_loop line 215-216 and _build_snapshot line 286: the sleep is
\* over and the loop thread takes the lock
SnapAcquire ==
    /\ snap_pc.at = "sleep"
    /\ snap_hist.built < MaxSnapshots
    /\ _lock = None
    /\ _lock' = Some(LoopThread)
    /\ snap_pc' = [at |-> "read", next |-> 1, local |-> TelemetryBroadcaster]
    /\ UNCHANGED <<broadcaster, writer_pc, snap_hist>>
    /\ SnapshotQuiet

\* _build_snapshot lines 287-295: the next field is copied
SnapRead ==
    LET field == _build_snapshot_reads[snap_pc.next]
    IN  /\ snap_pc.at = "read"
        /\ snap_pc.next <= Len(_build_snapshot_reads)
        /\ snap_pc' = [snap_pc EXCEPT !.next = @ + 1,
                                      !.local[field] = broadcaster[field]]
        /\ UNCHANGED <<broadcaster, _lock, writer_pc, snap_hist>>
        /\ SnapshotQuiet

\* _build_snapshot lines 296-298 and 418-427: the lock is released; without
\* a frame and cars there is no snapshot and the loop sleeps again
SnapRelease ==
    /\ snap_pc.at = "read"
    /\ snap_pc.next > Len(_build_snapshot_reads)
    /\ _lock' = None
    /\ snap_pc' = [snap_pc EXCEPT !.at = IF NothingToSend(snap_pc.local)
                                         THEN "sleep" ELSE "send"]
    /\ snap_hist' = IF NothingToSend(snap_pc.local) THEN snap_hist
                    ELSE [snap_hist EXCEPT !.built = @ + 1,
                                           !.snapshot = Some(snap_pc.local)]
    /\ UNCHANGED <<broadcaster, writer_pc>>
    /\ SnapshotQuiet

\* _broadcast_loop lines 219-232: the frame is written to the clients
SnapSend ==
    /\ snap_pc.at = "send"
    /\ snap_pc' = [snap_pc EXCEPT !.at = "sleep"]
    /\ UNCHANGED <<broadcaster, _lock, writer_pc, snap_hist>>
    /\ SnapshotQuiet

NextSnapshot ==
    \/ WriterUpdateOutsim
    \/ WriterUpdateMci
    \/ WriterSetFocusPlid
    \/ WriterUpdateTrackContext
    \/ WriterUpdatePlayerLap
    \/ WriterAcquire
    \/ WriterWrite
    \/ WriterReturn
    \/ SnapAcquire
    \/ SnapRead
    \/ SnapRelease
    \/ SnapSend

SpecSnapshot == InitBroadcaster /\ [][NextSnapshot]_vars

\* the lap fields and the context of a copy of the shadow state
LapOf(local) ==
    <<local._player_lap_progress, local._player_current_lap_ms,
      local._player_reference_lap_ms, local._player_delta_ms>>
ContextOf(local) == <<local._track, local._car>>

\* C24: under every interleaving of the update methods with the loop thread,
\* the fields of a snapshot are read in one critical section: no update
\* method is between two of its assignments while the loop reads; the four
\* lap fields of a snapshot are the arguments of one update_player_lap call
\* (or the initial None), track and car those of one update_track_context
\* call; and the loop thread does not hold the lock while it writes to the
\* clients.
C24_SnapshotInOneCriticalSection ==
    /\ snap_pc.at = "read" =>
           /\ _lock = Some(LoopThread)
           /\ \A thread \in WriterThreads : writer_pc[thread].at # "write"
           /\ \A k \in 1..(snap_pc.next - 1) :
                  snap_pc.local[_build_snapshot_reads[k]] =
                      broadcaster[_build_snapshot_reads[k]]
    /\ IsSome(snap_hist.snapshot) =>
           /\ LapOf(Get(snap_hist.snapshot)) \in
                  snap_hist.laps \cup {LapOf(TelemetryBroadcaster)}
           /\ ContextOf(Get(snap_hist.snapshot)) \in
                  snap_hist.contexts \cup {ContextOf(TelemetryBroadcaster)}
    /\ snap_pc.at \in {"sleep", "send"} => _lock # Some(LoopThread)

\* C24 witness: a snapshot was built after two update_player_lap calls and an
\* update_outsim, one caller waiting for the lock while the loop reads
C24_Witness ==
    /\ snap_pc.at = "read"
    /\ snap_pc.next = 8
    /\ snap_hist.built = 1
    /\ Cardinality(snap_hist.laps) = 2
    /\ \E thread \in WriterThreads : writer_pc[thread].at = "acquire"

---------------------------------------------------------------------------
\* The coroutines of the broadcaster's event loop: _handle_client and
\* _consume_client of every connection and _broadcast_loop, interleaved at
\* their awaits.  _build_snapshot is one step here (C24).

MaxIterations == 2
MaxMissed == 1

\* what a peer sends before the blank line: nothing complete, a request
\* without the key, with an empty key, with a key
Requests ==
    { [complete |-> FALSE, key |-> None],
      [complete |-> TRUE, key |-> None],
      [complete |-> TRUE, key |-> Some("")],
      [complete |-> TRUE, key |-> Some("dGhlIHNhbXBsZSBub25jZQ==")] }

BroadcastQuiet ==
    UNCHANGED <<framerVars, decoderVars, last, sessionVars, loopVars, storeVars,
                outsimVars, _lock, writer_pc, snap_pc, snap_hist, shutdownVars,
                reloadVars, lateVars>>

\* update_outsim called by main, lines 147-149, as one step
BroadcastData ==
    /\ broadcaster._latest_frame = None
    /\ broadcaster' = [broadcaster EXCEPT
                          ![ws_update_outsim(1000).writes[1].field] =
                              ws_update_outsim(1000).writes[1].value]
    /\ UNCHANGED clientVars
    /\ BroadcastQuiet

\* the server accepts a connection and starts _handle_client, line 238
ClientConnect ==
    \E c \in Conns :
        /\ connection[c].handler = "none"
        /\ connection' = [connection EXCEPT ![c].handler = "readuntil"]
        /\ UNCHANGED <<broadcaster, _clients, broadcast_pc>>
        /\ BroadcastQuiet

\* readuntil returns or raises IncompleteReadError, lines 238-258: without a
\* key the writer is closed, with one the response is written
ClientRequest ==
    \E c \in Conns, request \in Requests :
        LET refused == ~request.complete \/ NoKey(sec_websocket_key(request))
        IN  /\ connection[c].handler = "readuntil"
            /\ connection' = [connection EXCEPT ![c].request = Some(request),
                                    ![c].handler = IF refused THEN "done" ELSE "drain",
                                    ![c].closed = refused]
            /\ UNCHANGED <<broadcaster, _clients, broadcast_pc>>
            /\ BroadcastQuiet

\* the drain of the response returns, lines 259-268: the writer joins _clients
ClientAccepted ==
    \E c \in Conns :
        /\ connection[c].handler = "drain"
        /\ connection' = [connection EXCEPT ![c].handler = "consume", ![c].answered = TRUE]
        /\ _clients' = _clients \cup {c}
        /\ UNCHANGED <<broadcaster, broadcast_pc>>
        /\ BroadcastQuiet

\* the drain of the response raises ConnectionError, lines 261-264
ClientLost ==
    \E c \in Conns :
        /\ connection[c].handler = "drain"
        /\ connection' = [connection EXCEPT ![c].handler = "done", ![c].closed = TRUE]
        /\ UNCHANGED <<broadcaster, _clients, broadcast_pc>>
        /\ BroadcastQuiet

\* _consume_client reads the end of the stream (or its read raises),
\* lines 273-283: the writer leaves _clients and is closed
ClientEof ==
    \E c \in Conns :
        /\ connection[c].handler = "consume"
        /\ connection' = [connection EXCEPT ![c].handler = "done", ![c].closed = TRUE]
        /\ _clients' = _clients \ {c}
        /\ UNCHANGED <<broadcaster, broadcast_pc>>
        /\ BroadcastQuiet

\* the peer of an accepted client stops reading and its buffers are full:
\* from now on a drain of its writer neither returns nor raises
ClientStall ==
    \E c \in Conns :
        /\ connection[c].handler = "consume"
        /\ ~connection[c].stalled
        /\ connection' = [connection EXCEPT ![c].stalled = TRUE]
        /\ UNCHANGED <<broadcaster, _clients, broadcast_pc>>
        /\ BroadcastQuiet

\* _broadcast_loop lines 215-222: the sleep is over; without a snapshot the
\* loop sleeps again, with one it copies the client set
BroadcastWake ==
    /\ broadcast_pc.at = "sleep"
    /\ broadcast_pc.n < MaxIterations
    /\ ~NothingToSend(broadcaster)
    /\ broadcast_pc' = [broadcast_pc EXCEPT !.at = "iterate", !.n = @ + 1,
                                            !.clients = _clients,
                                            !.pending = _clients,
                                            !.stale = <<>>, !.writer = None]
    /\ UNCHANGED <<broadcaster, _clients, connection>>
    /\ BroadcastQuiet

\* lines 222-225: the frame is written to the next writer of the copy and
\* its drain is awaited
BroadcastWrite ==
    \E writer \in broadcast_pc.pending :
        /\ broadcast_pc.at = "iterate"
        /\ connection' = [connection EXCEPT ![writer].written = Append(@, broadcast_pc.n)]
        /\ broadcast_pc' = [broadcast_pc EXCEPT !.at = "drain",
                                                !.writer = Some(writer),
                                                !.pending = @ \ {writer}]
        /\ UNCHANGED <<broadcaster, _clients>>
        /\ BroadcastQuiet

\* line 225: the drain returns
BroadcastDrained ==
    /\ broadcast_pc.at = "drain"
    /\ ~connection[Get(broadcast_pc.writer)].closed
    /\ ~connection[Get(broadcast_pc.writer)].stalled
    /\ broadcast_pc' = [broadcast_pc EXCEPT !.at = "iterate"]
    /\ UNCHANGED <<broadcaster, _clients, connection>>
    /\ BroadcastQuiet

\* lines 225-227: the drain raises, the connection being closed or reset
BroadcastDrainRaised ==
    /\ broadcast_pc.at = "drain"
    /\ ~connection[Get(broadcast_pc.writer)].stalled \/ connection[Get(broadcast_pc.writer)].closed
    /\ connection' = [connection EXCEPT ![Get(broadcast_pc.writer)].raised =
                                IF @ = None THEN Some(broadcast_pc.n) ELSE @]
    /\ broadcast_pc' = _broadcast_loop_except(broadcast_pc, Get(broadcast_pc.writer))
    /\ UNCHANGED <<broadcaster, _clients>>
    /\ BroadcastQuiet

\* an interval of the cadence passes while the loop awaits a drain that
\* does not return
BroadcastTick ==
    /\ broadcast_pc.at = "drain"
    /\ connection[Get(broadcast_pc.writer)].stalled
    /\ ~connection[Get(broadcast_pc.writer)].closed
    /\ broadcast_pc.missed < MaxMissed
    /\ broadcast_pc' = [broadcast_pc EXCEPT !.missed = @ + 1]
    /\ UNCHANGED <<broadcaster, _clients, connection>>
    /\ BroadcastQuiet

\* lines 228-232: the next stale writer is discarded and closed
BroadcastEvict ==
    /\ broadcast_pc.at = "iterate"
    /\ broadcast_pc.pending = {}
    /\ broadcast_pc.stale # <<>>
    /\ _clients' = _clients \ {Head(broadcast_pc.stale)}
    /\ connection' = [connection EXCEPT ![Head(broadcast_pc.stale)].closed = TRUE]
    /\ broadcast_pc' = [broadcast_pc EXCEPT !.stale = Tail(@)]
    /\ UNCHANGED broadcaster
    /\ BroadcastQuiet

\* line 215: the iteration is over and the loop sleeps
BroadcastSleep ==
    /\ broadcast_pc.at = "iterate"
    /\ broadcast_pc.pending = {}
    /\ broadcast_pc.stale = <<>>
    /\ broadcast_pc' = [broadcast_pc EXCEPT !.at = "sleep"]
    /\ UNCHANGED <<broadcaster, _clients, connection>>
    /\ BroadcastQuiet

NextBroadcast ==
    \/ BroadcastData
    \/ ClientConnect
    \/ ClientRequest
    \/ ClientAccepted
    \/ ClientLost
    \/ ClientEof
    \/ ClientStall
    \/ BroadcastWake
    \/ BroadcastWrite
    \/ BroadcastDrained
    \/ BroadcastDrainRaised
    \/ BroadcastTick
    \/ BroadcastEvict
    \/ BroadcastSleep

SpecBroadcast == InitBroadcaster /\ [][NextBroadcast]_vars

\* the iteration numbered k of the broadcast loop is over
IterationOver(k) ==
    \/ broadcast_pc.n > k
    \/ broadcast_pc.n = k /\ broadcast_pc.at = "sleep"

\* C25: a connection is in the client set only after its request, holding a
\* Sec-WebSocket-Key, was answered; an iteration of the broadcast loop writes
\* its frame once to every client of the set, also to those that follow a
\* client whose drain raised; the client whose write or drain raised is not
\* written again, and when the iteration is over it is out of the set and
\* closed.
C25_ClientSetAndEviction ==
    /\ \A c \in _clients :
           /\ IsSome(connection[c].request)
           /\ Get(connection[c].request).complete
           /\ IsSome(Get(connection[c].request).key)
           /\ Get(Get(connection[c].request).key) # ""
           /\ connection[c].answered
    /\ \A c \in broadcast_pc.clients \ broadcast_pc.pending :
           /\ connection[c].written # <<>>
           /\ connection[c].written[Len(connection[c].written)] = broadcast_pc.n
    /\ \A c \in Conns :
           /\ \A i \in DOMAIN connection[c].written, j \in DOMAIN connection[c].written :
                  i < j => connection[c].written[i] < connection[c].written[j]
           /\ connection[c].written # <<>> => connection[c].answered
           /\ IsSome(connection[c].raised) =>
                  /\ \A i \in DOMAIN connection[c].written :
                         connection[c].written[i] <= Get(connection[c].raised)
                  /\ IterationOver(Get(connection[c].raised)) =>
                         c \notin _clients /\ connection[c].closed

\* C25 witness: the drain of client a raised in the first iteration, a is
\* out of the set and closed, and client b received the first and the
\* second frame
C25_Witness ==
    /\ connection["a"].raised = Some(1)
    /\ connection["a"].written = <<1>>
    /\ connection["a"].closed
    /\ "a" \notin _clients
    /\ connection["b"].written = <<1, 2>>
    /\ broadcast_pc.clients = {"b"}
    /\ broadcast_pc.at = "sleep"

\* C26: a client whose drain neither raises nor returns does not stall the
\* broadcast: no interval of the cadence passes with the loop waiting for
\* that client, so the other clients get their frames at the cadence.
C26_SlowClientDoesNotStall ==
    broadcast_pc.missed = 0

---------------------------------------------------------------------------
\* start() has returned: the loop thread runs runner() and _run while other
\* threads call stop(), one statement or one callback of the loop at a step.

MaxStopCalls == 2

ShutdownQuiet ==
    UNCHANGED <<framerVars, decoderVars, last, sessionVars, loopVars, storeVars,
                outsimVars, snapshotVars, clientVars, reloadVars, lateVars>>

\* runner line 129: run_until_complete(self._run()) queues the first step
\* of _run behind the callbacks already in the loop's queue
RunnerBegin ==
    /\ runner.thread = "new"
    /\ runner' = [runner EXCEPT !.thread = "looping"]
    /\ event_loop' = [event_loop EXCEPT !.ready = Append(@, "_run")]
    /\ UNCHANGED stopper
    /\ ShutdownQuiet

\* the loop runs a queued _request_shutdown, lines 208-210
LoopRequestShutdown ==
    /\ runner.thread = "looping"
    /\ event_loop.ready # <<>>
    /\ Head(event_loop.ready) = "_request_shutdown"
    /\ event_loop' = [event_loop EXCEPT !.ready = Tail(@)]
    /\ runner' = [runner EXCEPT
                     !._shutdown_future = _request_shutdown(@),
                     !.lost = @ \/ runner._shutdown_future = None]
    /\ UNCHANGED stopper
    /\ ShutdownQuiet

\* the loop runs the first step of _run, lines 182-184: the future is
\* created and start_server awaited
RunStart ==
    /\ runner.thread = "looping"
    /\ event_loop.ready # <<>>
    /\ Head(event_loop.ready) = "_run"
    /\ event_loop' = [event_loop EXCEPT !.ready = Tail(@)]
    /\ runner' = [runner EXCEPT !.run = "binding",
                                !._shutdown_future = Some("pending")]
    /\ UNCHANGED stopper
    /\ ShutdownQuiet

\* start_server returns, lines 184-193: the broadcast task is created and
\* _run awaits the future
RunBound ==
    /\ runner.run = "binding"
    /\ runner' = [runner EXCEPT !.run = "waiting",
                                !._server = Some("listening"),
                                !._broadcast_task = Some("running"),
                                !.writers = "open"]
    /\ UNCHANGED <<event_loop, stopper>>
    /\ ShutdownQuiet

\* start_server raises OSError, lines 185-188: set_result on the future,
\* which raises InvalidStateError when the future is done already
RunBindFailed ==
    /\ runner.run = "binding"
    /\ runner' = IF runner._shutdown_future = Some("done")
                 THEN [runner EXCEPT !.run = "raised",
                                     !.raised = Some("InvalidStateError")]
                 ELSE [runner EXCEPT !.run = "returned",
                                     !._shutdown_future = Some("done")]
    /\ UNCHANGED <<event_loop, stopper>>
    /\ ShutdownQuiet

\* the future is done, lines 193-206: the task is cancelled, the server and
\* the writers are closed and the loop is stopped
RunShutdown ==
    /\ runner.run = "waiting"
    /\ runner._shutdown_future = Some("done")
    /\ runner' = [runner EXCEPT !.run = "returned",
                                !._server = Some("closed"),
                                !._broadcast_task = Some("cancelled"),
                                !.writers = "closed"]
    /\ UNCHANGED <<event_loop, stopper>>
    /\ ShutdownQuiet

\* runner lines 130-132: _run is over and the loop is closed
RunnerClose ==
    /\ runner.thread = "looping"
    /\ runner.run \in {"returned", "raised"}
    /\ runner' = [runner EXCEPT !.thread = "closed"]
    /\ event_loop' = [event_loop EXCEPT !.closed = TRUE, !.ready = <<>>]
    /\ UNCHANGED stopper
    /\ ShutdownQuiet

\* runner line 133: self._loop = None, and the thread ends
RunnerExit ==
    /\ runner.thread = "closed"
    /\ runner' = [runner EXCEPT !.thread = "exited"]
    /\ event_loop' = [event_loop EXCEPT !.ref = None]
    /\ UNCHANGED stopper
    /\ ShutdownQuiet

\* stop line 140: loop = self._loop
StopBegin ==
    /\ stopper.at = "idle"
    /\ stopper.calls < MaxStopCalls
    /\ stopper' = [stopper EXCEPT !.at = "check", !.loop = event_loop.ref,
                                  !.calls = @ + 1]
    /\ UNCHANGED <<event_loop, runner>>
    /\ ShutdownQuiet

\* stop line 141: loop is not None and not loop.is_closed()
StopCheck ==
    /\ stopper.at = "check"
    /\ stopper' = [stopper EXCEPT !.at = IF IsSome(stopper.loop) /\ ~event_loop.closed
                                         THEN "call" ELSE "join"]
    /\ UNCHANGED <<event_loop, runner>>
    /\ ShutdownQuiet

\* stop line 142: call_soon_threadsafe, which raises RuntimeError when the
\* loop is closed
StopCallSoon ==
    /\ stopper.at = "call"
    /\ stopper' = IF event_loop.closed
                  THEN [stopper EXCEPT !.at = "idle", !.raised = Some("RuntimeError")]
                  ELSE [stopper EXCEPT !.at = "join"]
    /\ event_loop' = IF event_loop.closed THEN event_loop
                     ELSE [event_loop EXCEPT !.ready = Append(@, "_request_shutdown")]
    /\ UNCHANGED runner
    /\ ShutdownQuiet

\* stop lines 143-145: the join returns, the thread having ended or the five
\* seconds being over, and stop returns
StopJoin ==
    /\ stopper.at = "join"
    /\ stopper' = [stopper EXCEPT !.at = "idle", !._thread = FALSE]
    /\ UNCHANGED <<event_loop, runner>>
    /\ ShutdownQuiet

NextShutdown ==
    \/ RunnerBegin
    \/ LoopRequestShutdown
    \/ RunStart
    \/ RunBound
    \/ RunBindFailed
    \/ RunShutdown
    \/ RunnerClose
    \/ RunnerExit
    \/ StopBegin
    \/ StopCheck
    \/ StopCallSoon
    \/ StopJoin

SpecShutdown == InitBroadcaster /\ [][NextShutdown]_vars

\* C27: a stop() called at any point after start() returned does not raise
\* and its request is not lost: no _request_shutdown runs without effect
\* before _run made its future, the loop thread does not end with an
\* exception, and stop() gets past call_soon_threadsafe.
C27_ShutdownNotLost ==
    /\ ~runner.lost
    /\ runner.raised = None
    /\ stopper.raised = None

---------------------------------------------------------------------------
\* The frame loop with the HUD: poll() delivers button clicks and changes of
\* mode between the frame's arrival and the decision to draw the radar.

\* ButtonClickEvent: a click of the left button (flags 1), of the right one
\* (flags 2), of both, and none, on the two HUD buttons and on a foreign one
ButtonFlags == {0, 1, 2, 3}
ClickIds == {RADAR_BUTTON_ID, BEEPS_BUTTON_ID, 47}
ButtonEvents ==
    { [req_id |-> 0, ucid |-> 0, click_id |-> click_id, inst |-> 0, flags |-> flags] :
          click_id \in ClickIds, flags \in ButtonFlags }

\* StateEvent of single player and of multiplayer on the same track and car
HudStateEvents ==
    { StateEvent(flags2, Some(BL1), Some(XFG), None) : flags2 \in {0, ISS_MULTI} }

\* line 824: insim.poll() calls handle_button for a click it decoded
HudButton ==
    /\ pc = "poll"
    /\ \E event \in ButtonEvents :
           Dispatch("button", event, handle_button(Listening, event))

\* line 824: insim.poll() calls handle_state
HudState ==
    /\ pc = "poll"
    /\ \E event \in HudStateEvents :
           Dispatch("state", event, handle_state(Listening, event))

NextHud ==
    \/ LoopFrame
    \/ HudButton
    \/ HudState
    \/ LoopPublish

SpecHud == InitLoop /\ [][NextHud]_vars

\* the mode that is not the current one
OtherMode == IF current_mode = "sp" THEN "mp" ELSE "sp"

\* C30: a click is acted on only with bit 0 of its flags set; a click on the
\* radar button or on the beeps button toggles that setting of the current
\* mode and nothing else of the settings, and a second click restores it;
\* the HUD then shows the new states; and the radar is drawn for a frame
\* exactly when radar_enabled holds after the poll() of that frame's
\* iteration, so a click polled in the iteration decides its drawing.
C30_ButtonToggles ==
    /\ slast.op = "button" =>
           LET acted == /\ slast.event.flags % 2 = 1
                        /\ slast.event.click_id \in {RADAR_BUTTON_ID, BEEPS_BUTTON_ID}
               was == slast.pre.mode_settings[current_mode]
               now == mode_settings[current_mode]
           IN  /\ current_mode = slast.pre.current_mode
               /\ mode_settings[OtherMode] = slast.pre.mode_settings[OtherMode]
               /\ ~acted => /\ mode_settings = slast.pre.mode_settings
                            /\ radar_enabled = slast.pre.radar_enabled
                            /\ beep_enabled = slast.pre.beep_enabled
                            /\ hud = slast.pre.hud
               /\ (acted /\ slast.event.click_id = RADAR_BUTTON_ID) =>
                      /\ now.radar_enabled = ~was.radar_enabled
                      /\ now.beeps_enabled = was.beeps_enabled
                      /\ radar_enabled = now.radar_enabled
                      /\ beep_enabled = slast.pre.beep_enabled
               /\ (acted /\ slast.event.click_id = BEEPS_BUTTON_ID) =>
                      /\ now.beeps_enabled = ~was.beeps_enabled
                      /\ now.radar_enabled = was.radar_enabled
                      /\ beep_enabled = now.beeps_enabled
                      /\ radar_enabled = slast.pre.radar_enabled
               /\ acted =>
                      /\ hud = Some([radar |-> radar_enabled, beeps |-> beep_enabled])
                      /\ handle_button(SessionState, slast.event).mode_settings =
                             slast.pre.mode_settings
    /\ (slast.op = "publish" /\ IsSome(drawn)) =>
           /\ Get(drawn).frame = Get(frame)
           /\ Get(drawn).render_radar = radar_enabled
    /\ pc = "poll" =>
           \A event \in ButtonEvents :
               (event.flags % 2 = 1 /\ event.click_id = RADAR_BUTTON_ID) =>
                   handle_button(SessionState, event).radar_enabled = ~radar_enabled

\* C30 witness: in multiplayer the radar button was clicked during the poll
\* of a frame and the frame was not drawn, the settings of single player
\* being as they were
C30_Witness ==
    /\ slast.op = "publish"
    /\ current_mode = "mp"
    /\ IsSome(drawn)
    /\ ~Get(drawn).render_radar
    /\ ~mode_settings.mp.radar_enabled
    /\ mode_settings.sp = DefaultModeSettings.sp
    /\ hud = Some([radar |-> FALSE, beeps |-> FALSE])

\* ------------------------------------------------------------------------
\* The configuration watcher: main.watch_config and apply_telemetry_config,
\* beside the handlers of the main thread and the broadcaster threads.  A
\* write of config.json gives it a later st_mtime_ns than any before.
\* ------------------------------------------------------------------------

MaxWrites == 2

\* JSON text with the keys `raw`, and text that is not JSON
Json(raw) == [parses |-> TRUE, raw |-> raw]
NotJson == [parses |-> FALSE, raw |-> NoKeys]

\* contents of config.json: no key; another port and rate of telemetry; telemetry
\* disabled; other mode settings; update_hz of zero; a negative OutSim rate;
\* no JSON
ConfigContents ==
    { Json(NoKeys),
      Json([NoKeys EXCEPT !.telemetry_update_hz = Some(30), !.telemetry_port = Some(30334)]),
      Json([NoKeys EXCEPT !.telemetry_enabled = Some(FALSE)]),
      Json([NoKeys EXCEPT !.sp_radar_enabled = Some(FALSE), !.mp_beeps_enabled = Some(TRUE)]),
      Json([NoKeys EXCEPT !.telemetry_update_hz = Some(0)]),
      Json([NoKeys EXCEPT !.max_packets_per_second = Some(-5)]),
      NotJson }

\* clicks on the two buttons and a change of mode
ReloadButtonEvents == { event \in ButtonEvents : event.flags = 1 /\ event.click_id # 47 }

\* what a reload may touch
ReloadView ==
    [config |-> config, mode_settings |-> mode_settings, radar_enabled |-> radar_enabled,
     beep_enabled |-> beep_enabled, hud |-> hud, telemetry_server |-> telemetry_server,
     active_telemetry_config |-> active_telemetry_config, broadcasters |-> broadcasters,
     current_mode |-> current_mode]

ReloadQuiet ==
    UNCHANGED <<framerVars, decoderVars, last, loopVars, storeVars, outsimVars,
                broadcastVars, lateVars>>

InitReload == InitBroadcaster

\* somebody writes config.json, text that is JSON or not
FileWrite ==
    /\ config_file.mtime <= MaxWrites
    /\ \E content \in ConfigContents :
           config_file' = [exists |-> TRUE, mtime |-> config_file.mtime + 1,
                           parses |-> content.parses, raw |-> content.raw]
    /\ UNCHANGED <<sessionVars, last_mtime, config, active_telemetry_config, broadcasters,
                   reload_last>>
    /\ ReloadQuiet

\* somebody removes config.json
FileDelete ==
    /\ config_file.exists
    /\ config_file' = [config_file EXCEPT !.exists = FALSE, !.parses = FALSE,
                                          !.raw = NoKeys]
    /\ UNCHANGED <<sessionVars, last_mtime, config, active_telemetry_config, broadcasters,
                   reload_last>>
    /\ ReloadQuiet

\* watch_config, lines 671-680: stat() raises FileNotFoundError
WatchMissing ==
    /\ ~config_file.exists
    /\ last_mtime' = None
    /\ reload_last' = [outcome |-> "missing", file |-> config_file, pre |-> ReloadView]
    /\ UNCHANGED <<sessionVars, config_file, config, active_telemetry_config, broadcasters>>
    /\ ReloadQuiet

\* watch_config, lines 682-691: a new st_mtime_ns, and load_config or
\* from_dict raises
WatchFailed ==
    /\ config_file.exists
    /\ last_mtime # Some(config_file.mtime)
    /\ load_and_parse(config_file) = None
    /\ last_mtime' = Some(config_file.mtime)
    /\ reload_last' = [outcome |-> "failed", file |-> config_file, pre |-> ReloadView]
    /\ UNCHANGED <<sessionVars, config_file, config, active_telemetry_config, broadcasters>>
    /\ ReloadQuiet

\* watch_config, lines 682-719: a new st_mtime_ns, and the configuration
\* loaded from the file is applied
WatchReload ==
    /\ config_file.exists
    /\ last_mtime # Some(config_file.mtime)
    /\ load_and_parse(config_file) # None
    /\ LET new_config == Get(load_and_parse(config_file))
           applied == apply_telemetry_config(
                          [telemetry_server |-> telemetry_server,
                           active_telemetry_config |-> active_telemetry_config,
                           broadcasters |-> broadcasters],
                          new_config.telemetry)
           settings == new_config[current_mode]
       IN  /\ last_mtime' = Some(config_file.mtime)
           /\ active_telemetry_config' = applied.active_telemetry_config
           /\ broadcasters' = applied.broadcasters
           /\ config' = [outsim_rate_limit |-> new_config.outsim_rate_limit,
                         telemetry |-> new_config.telemetry]
           /\ SetSessionState(
                  [Listening EXCEPT
                      !.telemetry_server =
                          IF IsSome(applied.telemetry_server)
                          THEN Some([Get(applied.telemetry_server) EXCEPT
                                         !.track = current_track, !.car = current_car])
                          ELSE None,
                      !.mode_settings = [sp |-> new_config.sp, mp |-> new_config.mp],
                      !.radar_enabled = settings.radar_enabled,
                      !.beep_enabled = settings.beeps_enabled,
                      !.hud = hud_update(@, settings.radar_enabled, settings.beeps_enabled)])
           /\ reload_last' = [outcome |-> "applied", file |-> config_file,
                              pre |-> ReloadView]
    /\ UNCHANGED <<config_file, slast, scenario>>
    /\ ReloadQuiet

\* the thread of a broadcaster begins _run and serves, telemetry_ws lines
\* 125-133 and 181-193
BroadcasterServes ==
    /\ \E i \in DOMAIN broadcasters :
           /\ broadcasters[i].thread = "new"
           /\ \A j \in DOMAIN broadcasters :
                  broadcasters[j].thread = "serving" =>
                      broadcasters[j].settings.port # broadcasters[i].settings.port
           /\ broadcasters' = [broadcasters EXCEPT ![i].thread = "serving"]
    /\ reload_last' = [outcome |-> "none"]
    /\ UNCHANGED <<sessionVars, config_file, last_mtime, config, active_telemetry_config>>
    /\ ReloadQuiet

\* the thread of a broadcaster begins _run and cannot bind, a broadcaster
\* serving on the port: telemetry_ws lines 183-189
BroadcasterBindFails ==
    /\ \E i \in DOMAIN broadcasters :
           /\ broadcasters[i].thread = "new"
           /\ \E j \in DOMAIN broadcasters :
                  /\ broadcasters[j].thread = "serving"
                  /\ broadcasters[j].settings.port = broadcasters[i].settings.port
           /\ broadcasters' = [broadcasters EXCEPT ![i].thread = "exited"]
    /\ reload_last' = [outcome |-> "none"]
    /\ UNCHANGED <<sessionVars, config_file, last_mtime, config, active_telemetry_config>>
    /\ ReloadQuiet

\* the main thread: insim.poll() calls handle_state or handle_button
ReloadHandler(s) ==
    /\ SetSessionState(s)
    /\ reload_last' = [outcome |-> "none"]
    /\ UNCHANGED <<slast, scenario, config_file, last_mtime, config, active_telemetry_config,
                   broadcasters>>
    /\ ReloadQuiet

ReloadHandleState ==
    \E event \in HudStateEvents : ReloadHandler(handle_state(Listening, event))

ReloadHandleButton ==
    \E event \in ReloadButtonEvents :
        ReloadHandler(handle_button(Listening, event))

NextReload ==
    \/ FileWrite
    \/ FileDelete
    \/ WatchMissing
    \/ WatchFailed
    \/ WatchReload
    \/ BroadcasterServes
    \/ BroadcasterBindFails
    \/ ReloadHandleState
    \/ ReloadHandleButton

SpecReload == InitReload /\ [][NextReload]_vars

\* the file the watcher looked at cannot be loaded: it is not JSON, or a
\* value of it is out of range
Unloadable(file) ==
    \/ ~file.parses
    \/ IsSome(file.raw.telemetry_update_hz) /\ Get(file.raw.telemetry_update_hz) <= 0
    \/ IsSome(file.raw.max_packets_per_second) /\ Get(file.raw.max_packets_per_second) <= 0

\* C28: after an iteration of the watcher that found config.json missing or
\* not loadable, the active configuration, the settings of both modes, the
\* radar and beeps state, the HUD and the running broadcaster are what they
\* were before it; the watcher goes on: with a loadable file of a new
\* st_mtime_ns present, its next iteration is the one that applies it, and
\* once the watcher has seen a loadable file, the telemetry settings of that
\* file are the active ones.
C28_FailedReloadKeepsState ==
    /\ (reload_last.outcome # "none" /\
           (~reload_last.file.exists \/ Unloadable(reload_last.file))) =>
           /\ reload_last.outcome \in {"missing", "failed"}
           /\ ReloadView = reload_last.pre
    /\ (config_file.exists /\ ~Unloadable(config_file)) =>
           IF last_mtime # Some(config_file.mtime)
           THEN ENABLED WatchReload
           ELSE /\ config.telemetry = Get(from_dict(config_file.raw)).telemetry
                /\ active_telemetry_config = Some(config.telemetry)

\* C28 witness: the watcher has just failed on a file with update_hz zero,
\* in multiplayer with the radar switched off by a click, the broadcaster
\* serving with the settings of a former reload
C28_Witness ==
    /\ reload_last.outcome = "failed"
    /\ reload_last.file.parses
    /\ reload_last.file.raw.telemetry_update_hz = Some(0)
    /\ current_mode = "mp"
    /\ ~radar_enabled
    /\ mode_settings.mp.radar_enabled = FALSE
    /\ Len(broadcasters) = 2
    /\ broadcasters[2].thread = "serving"
    /\ config.telemetry.update_hz = 30

\* C29: a reload whose telemetry section equals the active one, a
\* broadcaster running, neither stops nor starts one; one whose section
\* differs stops the old broadcaster before it starts a new one with the new
\* settings, and starts none when telemetry is disabled; and at most one
\* broadcaster the orchestrator started runs at a time.
C29_OneBroadcaster ==
    /\ reload_last.outcome = "applied" =>
           LET was == reload_last.pre
               settings == Get(from_dict(reload_last.file.raw)).telemetry
               n == Len(was.broadcasters)
           IN  IF IsSome(was.telemetry_server) /\ was.active_telemetry_config = Some(settings)
               THEN SubSeq(broadcasters, 1, n) = was.broadcasters
               ELSE /\ IsSome(was.telemetry_server) => broadcasters[n].stop_called
                    /\ settings.enabled =>
                           /\ Len(broadcasters) >= n + 1
                           /\ broadcasters[n + 1].settings = settings
                    /\ ~settings.enabled => Len(broadcasters) = n
    /\ \A i \in DOMAIN broadcasters :
           i < Len(broadcasters) => broadcasters[i].stop_called
    /\ Cardinality({ i \in DOMAIN broadcasters : broadcasters[i].thread # "exited" }) <= 1

---------------------------------------------------------------------------
(* SpecMigrate: _apply_migrations statement by statement on one database   *)
(* file, a call being cut short at any statement by an exception or the    *)
(* end of the process, and the file connected to again.  sqlite3 runs the  *)
(* CREATE TABLE and the script of executescript outside any transaction    *)
(* (executescript commits what is pending first); the INSERT opens a       *)
(* transaction that conn.commit() ends and conn.close() rolls back.        *)

\* the number of connects to the file in a behaviour
MaxConnects == 3

MigrateQuiet ==
    UNCHANGED <<framerVars, decoderVars, last, sessionVars, loopVars, storeVars,
                outsimVars, broadcastVars, reloadVars, threadVars, exitVars>>

\* lines 41-47: conn.execute("CREATE TABLE IF NOT EXISTS schema_migrations ...")
MigrateCreateLedger ==
    /\ migration.at = "idle"
    /\ migration.connects < MaxConnects
    /\ \E dir \in MigrationDirs :
           migration' = [migration EXCEPT
                            !.file.schema_migrations = IF IsSome(@) THEN @ ELSE Some({}),
                            !.at = "select",
                            !.paths = _load_migration_versions(dir),
                            !.connects = @ + 1]
    /\ MigrateQuiet

\* lines 49-50: the ledger is read
MigrateSelect ==
    /\ migration.at = "select"
    /\ migration' = [migration EXCEPT !.applied = Get(migration.file.schema_migrations),
                                      !.at = "loop"]
    /\ MigrateQuiet

\* lines 52-55: a version the ledger holds is passed over
MigrateSkip ==
    /\ migration.at = "loop"
    /\ migration.paths # <<>>
    /\ Head(migration.paths) \in migration.applied
    /\ migration' = [migration EXCEPT !.paths = Tail(@)]
    /\ MigrateQuiet

\* lines 57-58: conn.executescript(sql)
MigrateScript ==
    /\ migration.at = "loop"
    /\ migration.paths # <<>>
    /\ Head(migration.paths) \notin migration.applied
    /\ migration' = [migration EXCEPT
                        !.file = executescript(@, Head(migration.paths)),
                        !.at = "insert"]
    /\ MigrateQuiet

\* lines 59-62: conn.execute("INSERT INTO schema_migrations(version) ...")
MigrateInsert ==
    /\ migration.at = "insert"
    /\ migration' = [migration EXCEPT !.tx = Some(Head(migration.paths)),
                                      !.at = "commit"]
    /\ MigrateQuiet

\* line 63: conn.commit()
MigrateCommit ==
    /\ migration.at = "commit"
    /\ migration' = [migration EXCEPT
                        !.file.schema_migrations = Some(Get(@) \cup {Get(migration.tx)}),
                        !.tx = None,
                        !.paths = Tail(@),
                        !.at = "loop"]
    /\ MigrateQuiet

\* line 52: no path is left; _connect goes on and closes the connection
MigrateReturn ==
    /\ migration.at = "loop"
    /\ migration.paths = <<>>
    /\ migration' = [migration EXCEPT !.at = "idle", !.applied = {}]
    /\ MigrateQuiet

\* a statement raises, or the process ends: _connect line 79 or the end of
\* the process closes the connection, the open transaction is rolled back
MigrateInterrupted ==
    /\ migration.at \in {"select", "loop", "insert", "commit"}
    /\ migration' = [migration EXCEPT !.tx = None, !.at = "idle", !.applied = {},
                                      !.paths = <<>>]
    /\ MigrateQuiet

InitMigrate == InitBroadcaster

NextMigrate ==
    \/ MigrateCreateLedger
    \/ MigrateSelect
    \/ MigrateSkip
    \/ MigrateScript
    \/ MigrateInsert
    \/ MigrateCommit
    \/ MigrateReturn
    \/ MigrateInterrupted

SpecMigrate == InitMigrate /\ [][NextMigrate]_vars

\* C36: whenever no call is under way, be it after a call that returned or
\* after one that was cut short, the ledger holds 0001_initial exactly when
\* table pb, which the script of 0001_initial creates, is in the file.
C36_ScriptAndLedgerTogether ==
    migration.at = "idle" =>
        (V0001_initial \in Ledger(migration.file) <=> IsSome(migration.file.pb))

---------------------------------------------------------------------------
(* SpecThreads: the main thread and the thread of watch_config step by step.
   The statements inside `with config_lock:` are steps of the thread that
   holds the lock; BeepSubsystem.process_frame runs on the main thread
   without the lock, one read or write of a shared attribute per step. *)

MaxFrames == 3
MaxReloads == 1

\* OutSimFrame.time_ms of the n-th frame
FrameTime(n) == 400 * n

\* StateEvent of single player and of multiplayer
ThreadStateEvents == { StateEvent(flags2, None, None, None) : flags2 \in {0, ISS_MULTI} }

\* the contents of config.json a reload parses: the mode sections
ThreadConfigs ==
    { [NoKeys EXCEPT !.sp_beeps_enabled = Some(on), !.mp_radar_enabled = Some(on)] :
          on \in BOOLEAN }

ThreadQuiet ==
    UNCHANGED <<framerVars, decoderVars, last, loopVars, storeVars, outsimVars,
                broadcastVars, migrateVars, exitVars, config_file, last_mtime,
                reload_last, slast, scenario>>

\* BeepSubsystem.set_enabled, lines 288-301: the schedule is reset when the
\* subsystem is switched off
set_enabled(b, was_enabled, enabled) ==
    IF was_enabled = enabled THEN b
    ELSE IF ~enabled
    THEN [b EXCEPT !._next_beep_time_ms = None, !._next_interval_index = 0]
    ELSE b

\* what `with config_lock:` guards of the session
ModeView ==
    [current_mode |-> current_mode, mode_settings |-> mode_settings,
     radar_enabled |-> radar_enabled, beep_enabled |-> beep_enabled,
     beep_system |-> beep_system]

\* A mutant of apply_mode_settings: the beep subsystem is left as it was.
apply_mode_settings_radar_only(view, mode_name) ==
    [view EXCEPT !.radar_enabled = view.mode_settings[mode_name].radar_enabled]

\* `settings = mode_settings[mode]; radar_enabled = settings.radar_enabled;
\* beep_system.set_enabled(settings.beeps_enabled)`: handle_state lines
\* 549-551, watch_config lines 702-705
apply_mode_settings(view, mode_name) ==
    LET settings == view.mode_settings[mode_name] IN
    [view EXCEPT !.radar_enabled = settings.radar_enabled,
                 !.beep_enabled = settings.beeps_enabled,
                 !.beep_system = set_enabled(@, view.beep_enabled, settings.beeps_enabled)]

\* the assignments of a ModeView
SetModeView(view) ==
    /\ current_mode' = view.current_mode
    /\ mode_settings' = view.mode_settings
    /\ radar_enabled' = view.radar_enabled
    /\ beep_enabled' = view.beep_enabled
    /\ beep_system' = view.beep_system

SessionRest ==
    UNCHANGED <<lap_state, tracked_plid, tracked_driver, current_track, current_car,
                persistent_best, last_frame_time_ms, pending_lap_start,
                telemetry_server, pb, record_calls>>

\* the main thread is between two calls of the frame loop
AtLoop == main_thread.at = "loop"

\* handle_state lines 536-545: the part before the lock; the handler returns
\* when the mode is the current one
ThreadHandleState ==
    /\ AtLoop
    /\ \E event \in ThreadStateEvents :
         LET s == set_focus_plid(update_track_context(Listening, event.track, event.car),
                                 event.view_plid)
             new_mode == IF (event.flags2 \div ISS_MULTI) % 2 = 1 THEN "mp" ELSE "sp"
         IN  /\ SetSessionState(s)
             /\ main_thread' =
                    IF new_mode = current_mode
                    THEN [main_thread EXCEPT !.handled = Some(event)]
                    ELSE [main_thread EXCEPT !.at = "state_wait", !.event = Some(event),
                                             !.handled = None]
    /\ UNCHANGED <<config_lock, watcher_thread, beep_system, beep_calls, config,
                   active_telemetry_config, broadcasters>>
    /\ ThreadQuiet

\* handle_state lines 547-548: the lock is taken and current_mode assigned
ThreadStateLocked ==
    /\ main_thread.at = "state_wait"
    /\ config_lock = "free"
    /\ config_lock' = "main"
    /\ current_mode' =
           IF (Get(main_thread.event).flags2 \div ISS_MULTI) % 2 = 1 THEN "mp" ELSE "sp"
    /\ main_thread' = [main_thread EXCEPT !.at = "state_mode"]
    /\ UNCHANGED <<mode_settings, radar_enabled, beep_enabled, hud, beep_system,
                   watcher_thread, beep_calls, config, active_telemetry_config,
                   broadcasters>>
    /\ SessionRest
    /\ ThreadQuiet

\* handle_state lines 549-565: the settings of the mode are applied, the lock
\* is released and the HUD updated
ThreadStateApply ==
    /\ main_thread.at = "state_mode"
    /\ LET view == apply_mode_settings(ModeView, current_mode) IN
       /\ SetModeView(view)
       /\ hud' = hud_update(hud, view.radar_enabled, view.beep_enabled)
    /\ config_lock' = "free"
    /\ main_thread' = [main_thread EXCEPT !.at = "loop", !.handled = main_thread.event,
                                          !.event = None]
    /\ UNCHANGED <<watcher_thread, beep_calls, config, active_telemetry_config,
                   broadcasters>>
    /\ SessionRest
    /\ ThreadQuiet

\* handle_button lines 743-754: a click with ISB_CLICK, the lock is taken and
\* the setting of the current mode negated
ThreadButtonLocked ==
    /\ AtLoop
    /\ config_lock = "free"
    /\ \E event \in ReloadButtonEvents :
         /\ mode_settings' =
                IF event.click_id = RADAR_BUTTON_ID
                THEN [mode_settings EXCEPT ![current_mode].radar_enabled = ~@]
                ELSE [mode_settings EXCEPT ![current_mode].beeps_enabled = ~@]
         /\ main_thread' = [main_thread EXCEPT !.at = "button_toggled",
                                               !.event = Some(event), !.handled = None]
    /\ config_lock' = "main"
    /\ UNCHANGED <<current_mode, radar_enabled, beep_enabled, hud, beep_system,
                   watcher_thread, beep_calls, config, active_telemetry_config,
                   broadcasters>>
    /\ SessionRest
    /\ ThreadQuiet

\* handle_button lines 749-772: the negated setting is applied, the lock is
\* released and the HUD updated
ThreadButtonApply ==
    /\ main_thread.at = "button_toggled"
    /\ LET settings == mode_settings[current_mode]
           view == IF Get(main_thread.event).click_id = RADAR_BUTTON_ID
                   THEN [ModeView EXCEPT !.radar_enabled = settings.radar_enabled]
                   ELSE [ModeView EXCEPT
                            !.beep_enabled = settings.beeps_enabled,
                            !.beep_system = set_enabled(@, beep_enabled,
                                                        settings.beeps_enabled)]
       IN  /\ SetModeView(view)
           /\ hud' = hud_update(hud, view.radar_enabled, view.beep_enabled)
    /\ config_lock' = "free"
    /\ main_thread' = [main_thread EXCEPT !.at = "loop", !.event = None]
    /\ UNCHANGED <<watcher_thread, beep_calls, config, active_telemetry_config,
                   broadcasters>>
    /\ SessionRest
    /\ ThreadQuiet

\* lines 819-833: the next frame; radar_enabled is read inside the lock, then
\* beep_system.process_frame(frame) is entered
ThreadFrame ==
    /\ AtLoop
    /\ config_lock = "free"
    /\ main_thread.frames < MaxFrames
    /\ SetSessionState(start_frame(Listening, FrameTime(main_thread.frames + 1)))
    /\ main_thread' = [main_thread EXCEPT !.at = "pf_enabled", !.frames = @ + 1,
                                          !.time_ms = FrameTime(main_thread.frames + 1),
                                          !.handled = None]
    /\ UNCHANGED <<config_lock, watcher_thread, beep_system, beep_calls, config,
                   active_telemetry_config, broadcasters>>
    /\ ThreadQuiet

\* one step of BeepSubsystem.process_frame, lines 303-327, from the point
\* `l.at` with the locals `l`: [b, l, call], where call is "play" for a call of
\* play_beep and the name of the exception when the step raises
process_frame_step(b, enabled, l) ==
    LET to(at) == [b |-> b, l |-> [l EXCEPT !.at = at], call |-> "none"]
        raise(name) == [b |-> b, l |-> [l EXCEPT !.at = "failed"], call |-> name]
        index == b._next_interval_index
    IN
    CASE l.at = "pf_enabled" -> IF ~enabled THEN to("loop") ELSE to("pf_pattern")
      [] l.at = "pf_pattern" ->
           IF b._interval_pattern = <<>> THEN to("loop") ELSE to("pf_next")
      [] l.at = "pf_next" ->
           IF ~IsSome(b._next_beep_time_ms) THEN to("pf_first_p") ELSE to("pf_compare")
      \* self._interval_pattern[self._next_interval_index], line 311
      [] l.at = "pf_first_p" ->
           [b |-> b, l |-> [l EXCEPT !.at = "pf_first_i", !.p = b._interval_pattern],
            call |-> "none"]
      [] l.at = "pf_first_i" ->
           IF index >= Len(l.p) THEN raise("IndexError")
           ELSE [b |-> [b EXCEPT !._next_beep_time_ms = Some(l.time_ms + l.p[index + 1])],
                 l |-> [l EXCEPT !.at = "loop"], call |-> "none"]
      \* current_time < self._next_beep_time_ms, line 314
      [] l.at = "pf_compare" ->
           IF ~IsSome(b._next_beep_time_ms) THEN raise("TypeError")
           ELSE IF l.time_ms < Get(b._next_beep_time_ms) THEN to("loop")
           ELSE to("pf_interval_p")
      \* interval = self._interval_pattern[self._next_interval_index], line 317
      [] l.at = "pf_interval_p" ->
           [b |-> b, l |-> [l EXCEPT !.at = "pf_interval_i", !.p = b._interval_pattern],
            call |-> "none"]
      [] l.at = "pf_interval_i" ->
           IF index >= Len(l.p) THEN raise("IndexError") ELSE to("pf_play")
      \* self._driver.play_beep(frequency, duration), line 321
      [] l.at = "pf_play" ->
           [b |-> b, l |-> [l EXCEPT !.at = "pf_advance_i"], call |-> "play"]
      \* (self._next_interval_index + 1) % len(self._interval_pattern), line 325
      [] l.at = "pf_advance_i" ->
           [b |-> b, l |-> [l EXCEPT !.at = "pf_advance_n", !.i = index], call |-> "none"]
      [] l.at = "pf_advance_n" ->
           [b |-> b, l |-> [l EXCEPT !.at = "pf_advance", !.n = Len(b._interval_pattern)],
            call |-> "none"]
      [] l.at = "pf_advance" ->
           [b |-> [b EXCEPT !._next_interval_index = (l.i + 1) % l.n],
            l |-> [l EXCEPT !.at = "pf_after_p"], call |-> "none"]
      \* next_interval = self._interval_pattern[self._next_interval_index], line 326
      [] l.at = "pf_after_p" ->
           [b |-> b, l |-> [l EXCEPT !.at = "pf_after_i", !.p = b._interval_pattern],
            call |-> "none"]
      [] l.at = "pf_after_i" ->
           IF index >= Len(l.p) THEN raise("IndexError")
           ELSE [b |-> [b EXCEPT !._next_beep_time_ms = Some(l.time_ms + l.p[index + 1])],
                 l |-> [l EXCEPT !.at = "loop"], call |-> "none"]

\* the points of process_frame
InProcessFrame ==
    main_thread.at \in {"pf_enabled", "pf_pattern", "pf_next", "pf_first_p", "pf_first_i",
                        "pf_compare", "pf_interval_p", "pf_interval_i", "pf_play",
                        "pf_advance_i", "pf_advance_n", "pf_advance", "pf_after_p",
                        "pf_after_i"}

\* the main thread takes a step of beep_system.process_frame(frame), line 833;
\* an exception ends the frame loop
ThreadProcessFrame ==
    /\ InProcessFrame
    /\ LET r == process_frame_step(beep_system, beep_enabled, main_thread) IN
       /\ beep_system' = r.b
       /\ main_thread' = r.l
       /\ beep_calls' =
              [raised |-> IF r.call \in {"none", "play"} THEN beep_calls.raised
                          ELSE r.call,
               plays |-> beep_calls.plays + (IF r.call = "play" THEN 1 ELSE 0),
               played_disabled |-> \/ beep_calls.played_disabled
                                   \/ (r.call = "play" /\ ~beep_enabled)]
    /\ UNCHANGED <<sessionVars, config_lock, watcher_thread, config,
                   active_telemetry_config, broadcasters>>
    /\ ThreadQuiet

\* watch_config lines 686-696: wait() timed out, config.json has changed and
\* parses; the telemetry section is applied before the lock is asked for
ThreadWatchLoad ==
    /\ watcher_thread.at = "wait"
    /\ watcher_thread.reloads < MaxReloads
    /\ \E raw \in ThreadConfigs, p \in BeepPatterns :
         LET new_config == Get(from_dict(raw))
             applied == apply_telemetry_config(
                            [telemetry_server |-> telemetry_server,
                             active_telemetry_config |-> active_telemetry_config,
                             broadcasters |-> broadcasters],
                            new_config.telemetry)
         IN  /\ active_telemetry_config' = applied.active_telemetry_config
             /\ broadcasters' = applied.broadcasters
             /\ telemetry_server' =
                    IF IsSome(applied.telemetry_server)
                    THEN Some([Get(applied.telemetry_server) EXCEPT
                                   !.track = current_track, !.car = current_car])
                    ELSE None
             /\ watcher_thread' = [watcher_thread EXCEPT
                                      !.at = "lock_wait", !.reloads = @ + 1,
                                      !.new_config = Some(new_config),
                                      !.beep = Some(BeepConfig(p))]
    /\ UNCHANGED <<lap_state, tracked_plid, tracked_driver, current_track, current_car,
                   persistent_best, last_frame_time_ms, pending_lap_start, current_mode,
                   mode_settings, radar_enabled, beep_enabled, hud, pb, record_calls,
                   config_lock, main_thread, beep_system, beep_calls, config>>
    /\ ThreadQuiet

\* watch_config lines 698-700: the lock is taken, config and mode_settings
\* are replaced
ThreadWatchLocked ==
    /\ watcher_thread.at = "lock_wait"
    /\ config_lock = "free"
    /\ config_lock' = "watcher"
    /\ LET new_config == Get(watcher_thread.new_config) IN
       /\ config' = [outsim_rate_limit |-> new_config.outsim_rate_limit,
                     telemetry |-> new_config.telemetry]
       /\ mode_settings' = [sp |-> new_config.sp, mp |-> new_config.mp]
    /\ watcher_thread' = [watcher_thread EXCEPT !.at = "update_config"]
    /\ UNCHANGED <<current_mode, radar_enabled, beep_enabled, hud, beep_system,
                   main_thread, beep_calls, active_telemetry_config, broadcasters>>
    /\ SessionRest
    /\ ThreadQuiet

\* one step of BeepSubsystem.update_config(c), lines 257-275, from the point
\* `at`: [b, at]
update_config_step(b, at, c) ==
    CASE at = "update_config" ->
           IF c = b._config THEN [b |-> b, at |-> "apply"]
           ELSE [b |-> [b EXCEPT !._config = BeepSubsystem(c)._config],
                 at |-> "update_pattern"]
      [] at = "update_pattern" ->
           [b |-> [b EXCEPT !._interval_pattern = BeepSubsystem(c)._interval_pattern],
            at |-> "update_index"]
      [] at = "update_index" ->
           [b |-> [b EXCEPT !._next_interval_index = 0], at |-> "update_next"]
      [] at = "update_next" ->
           [b |-> [b EXCEPT !._next_beep_time_ms = None], at |-> "apply"]

\* the thread of watch_config takes a step of beep_system.update_config,
\* line 701, inside the lock
ThreadUpdateConfig ==
    /\ watcher_thread.at \in {"update_config", "update_pattern", "update_index",
                              "update_next"}
    /\ LET r == update_config_step(beep_system, watcher_thread.at,
                                   Get(watcher_thread.beep))
       IN  /\ beep_system' = r.b
           /\ watcher_thread' = [watcher_thread EXCEPT !.at = r.at]
    /\ UNCHANGED <<sessionVars, config_lock, main_thread, beep_calls, config,
                   active_telemetry_config, broadcasters>>
    /\ ThreadQuiet

\* watch_config lines 702-719: the settings of the current mode are applied,
\* the lock is released and the HUD updated
ThreadWatchApply ==
    /\ watcher_thread.at = "apply"
    /\ LET view == apply_mode_settings(ModeView, current_mode) IN
       /\ SetModeView(view)
       /\ hud' = hud_update(hud, view.radar_enabled, view.beep_enabled)
    /\ config_lock' = "free"
    /\ watcher_thread' = [watcher_thread EXCEPT !.at = "wait", !.new_config = None,
                                                !.beep = None]
    /\ UNCHANGED <<main_thread, beep_calls, config, active_telemetry_config,
                   broadcasters>>
    /\ SessionRest
    /\ ThreadQuiet

InitThreads == InitBroadcaster

NextThreads ==
    \/ ThreadHandleState
    \/ ThreadStateLocked
    \/ ThreadStateApply
    \/ ThreadButtonLocked
    \/ ThreadButtonApply
    \/ ThreadFrame
    \/ ThreadProcessFrame
    \/ ThreadWatchLoad
    \/ ThreadWatchLocked
    \/ ThreadUpdateConfig
    \/ ThreadWatchApply

SpecThreads == InitThreads /\ [][NextThreads]_vars

\* C31: after every StateEvent current_mode is mp exactly when ISS_MULTI is
\* set in its flags2, and whenever config_lock is free radar_enabled and the
\* enabled flag of the beep subsystem are the settings of
\* mode_settings[current_mode], whatever the interleaving of state events and
\* button clicks on the main thread with reloads on the watcher thread.
C31_ModeSettingsApplied ==
    /\ IsSome(main_thread.handled) =>
           (current_mode = "mp" <=>
                (Get(main_thread.handled).flags2 \div ISS_MULTI) % 2 = 1)
    /\ config_lock = "free" =>
           /\ radar_enabled = mode_settings[current_mode].radar_enabled
           /\ beep_enabled = mode_settings[current_mode].beeps_enabled

\* C31 witness: a state event of multiplayer was handled and the lock is free
\* after a reload and a click changed the settings in force
C31_Witness ==
    /\ IsSome(main_thread.handled)
    /\ current_mode = "mp"
    /\ config_lock = "free"
    /\ watcher_thread.reloads > 0
    /\ watcher_thread.at = "wait"
    /\ mode_settings # DefaultModeSettings
    /\ ~radar_enabled

\* C40: wherever process_frame subscripts the pattern, the index it reads is
\* one of the pattern it read, also while update_config runs on the watcher
\* thread, so that no exception ends the frame loop; and play_beep is not
\* called while the subsystem is disabled.
C40_IndexValidWhenRead ==
    /\ main_thread.at \in {"pf_first_i", "pf_interval_i", "pf_after_i"} =>
           beep_system._next_interval_index < Len(main_thread.p)
    /\ beep_calls.raised = "none"
    /\ ~beep_calls.played_disabled

---------------------------------------------------------------------------
(* SpecExit: the frame loop ends and main runs its finally blocks, lines
   897-912, while the thread of watch_config is wherever it is: in
   stop_event.wait(1.0) or in an iteration. The broadcasters are seen as in
   SpecReload. *)

\* why the frame loop ends: insim.connected is False after poll() (line 825),
\* an exception of outsim.frames(), KeyboardInterrupt
ExitCauses == {"insim_closed", "outsim_error", "interrupt"}

ExitQuiet ==
    UNCHANGED <<framerVars, decoderVars, last, loopVars, storeVars, outsimVars,
                broadcastVars, migrateVars, config_lock, beep_system, beep_calls,
                reload_last, slast, scenario>>

ExitSessionRest ==
    UNCHANGED <<lap_state, tracked_plid, tracked_driver, current_track, current_car,
                persistent_best, last_frame_time_ms, pending_lap_start, current_mode,
                pb, record_calls>>

\* one step of the end of main from the point `at`, lines 897-912: the point
\* after it
shutdown_step(at) ==
    CASE at = "loop" -> "finally_hud"         \* the frame loop is left
      [] at = "finally_hud" -> "with_exit"    \* hud_controller.remove(), = None
      [] at = "with_exit" -> "finally_stop"   \* the clients are closed
      [] at = "finally_stop" -> "join"        \* stop_event.set()
      [] at = "join" -> "stop_server"         \* watcher_thread.join()
      [] at = "stop_server" -> "done"         \* telemetry_server.stop()

MainStep == main_thread' = [main_thread EXCEPT !.at = shutdown_step(@)]

\* lines 825-827 and 897: the frame loop ends
ExitLoopEnds ==
    /\ main_thread.at = "loop"
    /\ \E cause \in ExitCauses :
           exit_state' = [exit_state EXCEPT !.cause = cause,
                                            !.connected = cause # "insim_closed"]
    /\ MainStep
    /\ UNCHANGED <<sessionVars, stop_event, watcher_thread, config_file, last_mtime,
                   config, active_telemetry_config, broadcasters>>
    /\ ExitQuiet

\* lines 898-899 and HUDController.remove: the buttons are deleted when they
\* are shown, hud_controller = None
ExitHudRemove ==
    /\ main_thread.at = "finally_hud"
    /\ exit_state' = [exit_state EXCEPT !._visible = FALSE]
    /\ hud' = None
    /\ MainStep
    /\ UNCHANGED <<mode_settings, radar_enabled, beep_enabled, telemetry_server,
                   stop_event, watcher_thread, config_file, last_mtime, config,
                   active_telemetry_config, broadcasters>>
    /\ ExitSessionRest
    /\ ExitQuiet

\* the with statement of line 791 is left: InSimClient.close()
ExitCloseClients ==
    /\ main_thread.at = "with_exit"
    /\ exit_state' = [exit_state EXCEPT !.connected = FALSE]
    /\ MainStep
    /\ UNCHANGED <<sessionVars, stop_event, watcher_thread, config_file, last_mtime,
                   config, active_telemetry_config, broadcasters>>
    /\ ExitQuiet

\* line 907: stop_event.set()
ExitSetStop ==
    /\ main_thread.at = "finally_stop"
    /\ stop_event' = TRUE
    /\ MainStep
    /\ UNCHANGED <<sessionVars, exit_state, watcher_thread, config_file, last_mtime,
                   config, active_telemetry_config, broadcasters>>
    /\ ExitQuiet

\* line 908: watcher_thread.join() returns when the thread has ended
ExitJoin ==
    /\ main_thread.at = "join"
    /\ watcher_thread.at = "terminated"
    /\ MainStep
    /\ UNCHANGED <<sessionVars, stop_event, exit_state, watcher_thread, config_file,
                   last_mtime, config, active_telemetry_config, broadcasters>>
    /\ ExitQuiet

\* lines 909-910: telemetry_server.stop() when there is a server
ExitStopServer ==
    /\ main_thread.at = "stop_server"
    /\ broadcasters' = IF IsSome(telemetry_server)
                       THEN [broadcasters EXCEPT ![Len(broadcasters)] = ws_stop(@)]
                       ELSE broadcasters
    /\ MainStep
    /\ UNCHANGED <<sessionVars, stop_event, exit_state, watcher_thread, config_file,
                   last_mtime, config, active_telemetry_config>>
    /\ ExitQuiet

\* somebody writes config.json while main runs
ExitFileWrite ==
    /\ config_file.mtime <= MaxWrites
    /\ \E content \in ConfigContents :
           config_file' = [exists |-> TRUE, mtime |-> config_file.mtime + 1,
                           parses |-> content.parses, raw |-> content.raw]
    /\ UNCHANGED <<sessionVars, stop_event, exit_state, main_thread, watcher_thread,
                   last_mtime, config, active_telemetry_config, broadcasters>>
    /\ ExitQuiet

\* the thread of a broadcaster begins _run and serves
ExitBroadcasterServes ==
    /\ \E i \in DOMAIN broadcasters :
           /\ broadcasters[i].thread = "new"
           /\ \A j \in DOMAIN broadcasters :
                  broadcasters[j].thread = "serving" =>
                      broadcasters[j].settings.port # broadcasters[i].settings.port
           /\ broadcasters' = [broadcasters EXCEPT ![i].thread = "serving"]
    /\ UNCHANGED <<sessionVars, stop_event, exit_state, main_thread, watcher_thread,
                   config_file, last_mtime, config, active_telemetry_config>>
    /\ ExitQuiet

\* line 669: stop_event.wait(1.0) returns False, an iteration begins
ExitWatchWake ==
    /\ watcher_thread.at = "wait"
    /\ ~stop_event
    /\ watcher_thread' = [watcher_thread EXCEPT !.at = "iterate"]
    /\ UNCHANGED <<sessionVars, stop_event, exit_state, main_thread, config_file,
                   last_mtime, config, active_telemetry_config, broadcasters>>
    /\ ExitQuiet

\* line 669: stop_event.wait(1.0) returns True, watch_config returns
ExitWatchStopped ==
    /\ watcher_thread.at = "wait"
    /\ stop_event
    /\ watcher_thread' = [watcher_thread EXCEPT !.at = "terminated"]
    /\ UNCHANGED <<sessionVars, stop_event, exit_state, main_thread, config_file,
                   last_mtime, config, active_telemetry_config, broadcasters>>
    /\ ExitQuiet

\* lines 670-691: the iteration ends with `continue`: the file is missing,
\* unchanged, or does not load
ExitWatchContinue ==
    /\ watcher_thread.at = "iterate"
    /\ \/ ~config_file.exists
       \/ last_mtime = Some(config_file.mtime)
       \/ load_and_parse(config_file) = None
    /\ last_mtime' = IF config_file.exists THEN Some(config_file.mtime) ELSE None
    /\ watcher_thread' = [watcher_thread EXCEPT !.at = "wait"]
    /\ UNCHANGED <<sessionVars, stop_event, exit_state, main_thread, config_file,
                   config, active_telemetry_config, broadcasters>>
    /\ ExitQuiet

\* lines 682-717: the configuration loaded from the file is applied and
\* hud_controller read
ExitWatchApply ==
    /\ watcher_thread.at = "iterate"
    /\ config_file.exists
    /\ last_mtime # Some(config_file.mtime)
    /\ load_and_parse(config_file) # None
    /\ LET new_config == Get(load_and_parse(config_file))
           applied == apply_telemetry_config(
                          [telemetry_server |-> telemetry_server,
                           active_telemetry_config |-> active_telemetry_config,
                           broadcasters |-> broadcasters],
                          new_config.telemetry)
           settings == new_config[current_mode]
       IN  /\ last_mtime' = Some(config_file.mtime)
           /\ active_telemetry_config' = applied.active_telemetry_config
           /\ broadcasters' = applied.broadcasters
           /\ config' = [outsim_rate_limit |-> new_config.outsim_rate_limit,
                         telemetry |-> new_config.telemetry]
           /\ telemetry_server' =
                  IF IsSome(applied.telemetry_server)
                  THEN Some([Get(applied.telemetry_server) EXCEPT
                                 !.track = current_track, !.car = current_car])
                  ELSE None
           /\ mode_settings' = [sp |-> new_config.sp, mp |-> new_config.mp]
           /\ radar_enabled' = settings.radar_enabled
           /\ beep_enabled' = settings.beeps_enabled
    /\ exit_state' = [exit_state EXCEPT !.hud = IsSome(hud)]
    /\ watcher_thread' = [watcher_thread EXCEPT !.at = "hud"]
    /\ UNCHANGED <<hud, stop_event, main_thread, config_file>>
    /\ ExitSessionRest
    /\ ExitQuiet

\* lines 718-719 and HUDController.update: the controller is visible again
\* when the local `hud` is a controller
ExitWatchHud ==
    /\ watcher_thread.at = "hud"
    /\ hud' = IF exit_state.hud THEN hud_update(hud, radar_enabled, beep_enabled)
              ELSE hud
    /\ exit_state' = IF exit_state.hud
                     THEN [exit_state EXCEPT !._visible = TRUE, !.hud = FALSE]
                     ELSE exit_state
    /\ watcher_thread' = [watcher_thread EXCEPT !.at = "wait"]
    /\ UNCHANGED <<mode_settings, radar_enabled, beep_enabled, telemetry_server,
                   stop_event, main_thread, config_file, last_mtime, config,
                   active_telemetry_config, broadcasters>>
    /\ ExitSessionRest
    /\ ExitQuiet

InitExit == InitBroadcaster

NextExit ==
    \/ ExitLoopEnds
    \/ ExitHudRemove
    \/ ExitCloseClients
    \/ ExitSetStop
    \/ ExitJoin
    \/ ExitStopServer
    \/ ExitFileWrite
    \/ ExitBroadcasterServes
    \/ ExitWatchWake
    \/ ExitWatchStopped
    \/ ExitWatchContinue
    \/ ExitWatchApply
    \/ ExitWatchHud

SpecExit == InitExit /\ [][NextExit]_vars

\* the same with every step of the two threads taken in the end
SpecExitFair ==
    /\ SpecExit
    /\ WF_vars(ExitHudRemove \/ ExitCloseClients \/ ExitSetStop \/ ExitJoin
               \/ ExitStopServer)
    /\ WF_vars(ExitWatchWake \/ ExitWatchStopped \/ ExitWatchContinue \/ ExitWatchApply
               \/ ExitWatchHud)

\* the end of main runs to its last statement once the frame loop is left
ExitRunsToCompletion == (main_thread.at = "finally_hud") ~> (main_thread.at = "done")

\* C32: however the frame loop ends, when the end of main has run the HUD
\* buttons are removed, the stop event is set, the watcher has ended and
\* applied no configuration after it saw the event, and the broadcaster
\* main holds is stopped.
C32_OrderlyShutdown ==
    main_thread.at = "done" =>
        /\ exit_state.cause \in ExitCauses
        /\ hud = None
        /\ ~exit_state._visible
        /\ stop_event
        /\ watcher_thread.at = "terminated"
        /\ IsSome(telemetry_server) =>
               broadcasters[Len(broadcasters)].thread = "exited"

===========================================================================
